---------------------------- MODULE Spec2Model ----------------------------
(***************************************************************************)
(* Formula Resolver Core of workflow-toolkit: the recursive resolver       *)
(* (resolve-column-value.js, handle-formula.js, handle-mirror.js), the     *)
(* session cache with its in-flight maps and request coordinator           *)
(* (schema-cache.js) and the strategy selector.                            *)
(*                                                                         *)
(* Every async function is a frame in `calls`; an action is the code of    *)
(* one function between two suspension points (await).  A remote query    *)
(* completes, and the coordinator's timer fires, in a later task of the    *)
(* event loop: after every continuation that is ready has run.             *)
(*                                                                         *)
(* Scope.  All callers of one session ask for the same key; the second     *)
(* call may overlap the first, later calls start when the earlier ones     *)
(* have settled (Spec).  CoordSpec is a createSimpleCache session whose    *)
(* callers also request values from the coordinator, flush it and          *)
(* invalidate the session.  The expiry of createSchemaCache entries and    *)
(* invalidate(boardId) are outside the model.  EngineSpec is the formula   *)
(* engine alone (tokenizer.js, parser.js, evaluator.js): evaluateFormula   *)
(* on a formula text, with no session.  LiveSpec is Spec on the columns    *)
(* without a reference cycle, with an event loop that runs every queued    *)
(* continuation and a platform that answers every query.                   *)
(***************************************************************************)
EXTENDS Integers, Sequences, FiniteSets, TLC

VARIABLES
  cacheKind,              \* "simple": createSimpleCache, "schema": createSchemaCache
  root,                   \* the key the callers of this session ask for
  calls,                  \* the frames of resolveColumnValue / resolveColumnValueBatch
  visited,                \* visitedPaths: one Set per top-level call
  schemaCache,            \* boards whose columns are cached
  pendingSchemaRequests,  \* boards whose schema fetch is in flight
  valueCache,             \* key -> resolved value
  pendingValueRequests,   \* key -> frame whose resolutionPromise is registered
  coordinatorPending,     \* itemId -> { columns, resolvers, timer }
  coordinatorCache,       \* <<itemId, columnId>> -> value
  coordinatorQueries,     \* multi-column queries in flight
  issued,                 \* history: every remote query issued so far
  windows,                \* history: itemId -> batch windows opened so far
  microtasks,             \* frames whose continuation is queued, in queue order
  failures,               \* remote queries that failed so far
  hist,                   \* history: what the callers observed
  tokenizerFormula,       \* Tokenizer.formula: the text given to evaluateFormula
  tokenizerPos,           \* Tokenizer.pos
  tokenizerTokens,        \* Tokenizer.tokens
  parserAst,              \* what Parser.parse returned or threw
  formulaResult           \* what evaluateFormula returned, null until it returns

sessionVars == <<cacheKind, root, calls, visited, schemaCache,
                 pendingSchemaRequests, valueCache, pendingValueRequests,
                 coordinatorPending, coordinatorCache, coordinatorQueries,
                 issued, windows, microtasks, failures, hist>>

engineVars == <<tokenizerFormula, tokenizerPos, tokenizerTokens, parserAst,
                formulaResult>>

vars == <<sessionVars, engineVars>>

-----------------------------------------------------------------------------
(* Bounds *)

MaxScalar == 2
MaxParens == 2
MaxTop == 2
MaxFail == 1
MaxRequests == 2
MaxFlush == 1
MaxInvalidate == 1
MaxCallers == 3
MaxItems == 201

-----------------------------------------------------------------------------
(* Scalars.  A JavaScript value is a number, a string (a sequence of       *)
(* characters) or null/undefined.                                          *)

Numv(n) == [t |-> "num", n |-> n, s |-> <<>>]
Strv(s) == [t |-> "str", n |-> 0, s |-> s]
Null == [t |-> "null", n |-> 0, s |-> <<>>]
Empty == Strv(<<>>)
Zero == Numv(0)
StrNull == Strv(<<"n", "u", "l", "l">>)

Digits == <<"0", "1", "2", "3", "4", "5", "6", "7", "8", "9">>

IsDigit(ch) == \E d \in 1..10 : Digits[d] = ch

DigitVal(ch) == (CHOOSE d \in 1..10 : Digits[d] = ch) - 1

RECURSIVE NatToStr(_)
NatToStr(n) == IF n < 10 THEN <<Digits[n + 1]>>
               ELSE NatToStr(n \div 10) \o <<Digits[(n % 10) + 1]>>

\* String(value) of an integer
IntToStr(n) == IF n < 0 THEN <<"-">> \o NatToStr(0 - n) ELSE NatToStr(n)

\* the digits at the front of s
RECURSIVE DigitPrefix(_)
DigitPrefix(s) == IF s = <<>> \/ ~IsDigit(Head(s)) THEN <<>>
                  ELSE <<Head(s)>> \o DigitPrefix(Tail(s))

RECURSIVE DigitsToNat(_, _)
DigitsToNat(s, acc) == IF s = <<>> THEN acc
                       ELSE DigitsToNat(Tail(s), acc * 10 + DigitVal(Head(s)))

\* /^-?\d+$/ : the integer case of /^-?\d+(\.\d+)?$/ (no '.' in the modelled data)
IsPureNumber(s) ==
  LET body == IF s # <<>> /\ Head(s) = "-" THEN Tail(s) ELSE s
  IN body # <<>> /\ DigitPrefix(body) = body

\* parseFloat(s): the longest numeric prefix, NaN (Null) when there is none
parseFloat(s) ==
  LET neg == s # <<>> /\ Head(s) = "-"
      body == IF neg THEN Tail(s) ELSE s
      ds == DigitPrefix(body)
  IN IF ds = <<>> THEN Null
     ELSE Numv(IF neg THEN 0 - DigitsToNat(ds, 0) ELSE DigitsToNat(ds, 0))

\* Number(v): '' is 0, a string that is not wholly numeric is NaN (Null)
Number(v) ==
  IF v.t = "num" THEN v
  ELSE IF v.t = "bool" THEN Numv(v.n)
  ELSE IF v.t = "null" THEN Zero
  ELSE IF v.s = <<>> THEN Zero
  ELSE IF IsPureNumber(v.s) THEN parseFloat(v.s)
  ELSE Null

\* String(v ?? '')
String(v) ==
  IF v.t = "num" THEN IntToStr(v.n)
  ELSE IF v.t = "bool"
    THEN (IF v.n = 1 THEN <<"t", "r", "u", "e">> ELSE <<"f", "a", "l", "s", "e">>)
  ELSE v.s

isNullishDisplayValue(v) ==
  v.t = "null" \/ (v.t = "str" /\ (v.s = <<>> \/ v = StrNull))

-----------------------------------------------------------------------------
(* The upstream platform: boards, columns and items.  A column id is       *)
(* <<prefix, rest>>, so that startsWith(prefix) is structural.             *)

NUM == <<"", "num">>
N2 == <<"", "n2">>
F_A == <<"", "f_a">>
F_B == <<"", "f_b">>
F_C == <<"", "f_c">>
FORMULA_D == <<"formula_", "d">>
FORMULA_L == <<"formula_", "l">>
FORMULA_P == <<"formula_", "p">>
F_K == <<"", "f_k">>
F_T == <<"", "f_t">>
TXT == <<"", "txt">>
MIRROR_S == <<"mirror_", "s">>
MIRROR_A == <<"mirror_", "a">>
LBL == <<"", "lbl">>
MIRROR_T == <<"mirror_", "t">>
MIRROR_C == <<"mirror_", "c">>
MIRROR_E == <<"mirror_", "e">>
F_E == <<"", "f_e">>
NOCOL == <<"", "nocol">>

Ref(c) == [ref |-> TRUE, col |-> c, lit |-> 0]
Lit(n) == [ref |-> FALSE, col |-> NOCOL, lit |-> n]

\* settings of a column; formula is the formula text "t1 + t2 + ..."
Column(type, formula, fn, tboard, tcol) ==
  [type |-> type, formula |-> formula, fn |-> fn, tboard |-> tboard, tcol |-> tcol]

Leaf(type) == Column(type, <<>>, "", "", NOCOL)
Formula(terms) == Column("formula", terms, "", "", NOCOL)

\* the boards known to the platform and their columns
Boards == {"b1"}
UnknownBoard == "b9"

BoardColumnIds == {NUM, N2, TXT, LBL, F_A, F_B, F_C, F_K, F_T, FORMULA_D, FORMULA_L,
                   FORMULA_P, MIRROR_S, MIRROR_A, MIRROR_T, MIRROR_C, MIRROR_E, F_E}

BoardColumns ==
  [c \in BoardColumnIds |->
     CASE c = NUM -> Leaf("numbers")
       [] c = N2 -> Leaf("numbers")
       [] c = TXT -> Leaf("text")
       [] c = LBL -> Leaf("text")
       [] c = F_A -> Formula(<<Ref(F_B), Lit(1)>>)
       [] c = F_B -> Formula(<<Ref(F_A), Lit(1)>>)
       [] c = F_C -> Formula(<<Ref(NUM), Ref(N2)>>)
       [] c = FORMULA_D -> Formula(<<Ref(FORMULA_L), Ref(NUM)>>)
       [] c = FORMULA_L -> Formula(<<Ref(NUM), Lit(1)>>)
       [] c = FORMULA_P -> Formula(<<Ref(FORMULA_L), Lit(1)>>)
       [] c = F_K -> Formula(<<Lit(1), Lit(1)>>)
       [] c = F_E -> Formula(<<>>)
       [] c = F_T -> Formula(<<Ref(TXT), Ref(NUM)>>)
       [] c = MIRROR_S -> Column("mirror", <<>>, "none", "b1", MIRROR_S)
       [] c = MIRROR_A -> Column("mirror", <<>>, "avg", "b1", F_K)
       [] c = MIRROR_T -> Column("mirror", <<>>, "none", "b1", LBL)
       [] c = MIRROR_C -> Column("mirror", <<>>, "count", "b1", NUM)
       [] c = MIRROR_E -> Column("mirror", <<>>, "", "b1", LBL)]

\* the platform's record of column c on item i: { display_value, number, text }
RemoteColumnValue(c, i) ==
  IF c = NUM
    THEN [display_value |-> Null,
          number |-> Numv(IF i = 1 THEN 25 ELSE 7),
          text |-> Strv(IF i = 1 THEN <<"2", "5">> ELSE <<"7">>)]
    ELSE IF c = TXT
      THEN [display_value |-> Null, number |-> Null, text |-> Strv(<<"7", "x">>)]
    ELSE IF c = LBL
      THEN [display_value |-> Null, number |-> Null,
            text |-> Strv(IF i = 1 THEN <<"A">> ELSE <<"B">>)]
    ELSE IF c = MIRROR_C
      THEN [display_value |-> Strv(<<"5">>), number |-> Null, text |-> Empty]
    ELSE [display_value |-> Null, number |-> Null, text |-> Empty]

\* mirrored_items of mirror column c on item i: <<linked_board_id, linked_item.id>>
RemoteMirroredItems(c, i) ==
  IF c = MIRROR_S THEN <<<<"b1", i>>>>
  ELSE IF c = MIRROR_A THEN <<<<"b1", 1>>, <<"b1", 2>>>>
  ELSE IF c = MIRROR_T THEN <<<<"b1", 2>>, <<"b1", 1>>>>
  ELSE <<>>

-----------------------------------------------------------------------------
(* graphql-queries.js: what each fetch makes of the response *)

fetchDisplayValue(c, i) ==
  LET colValue == RemoteColumnValue(c, i)
  IN IF colValue.display_value # Null THEN colValue.display_value
     ELSE IF colValue.number # Null THEN colValue.number
     ELSE IF colValue.text = Empty THEN Null ELSE colValue.text

fetchNumericValue(c, i) ==
  LET colValue == RemoteColumnValue(c, i)
      OrZero(v) == IF v = Null THEN Zero ELSE v
  IN IF colValue.number # Null THEN colValue.number
     ELSE IF colValue.display_value # Null
       THEN OrZero(parseFloat(String(colValue.display_value)))
     ELSE IF colValue.text # Empty THEN OrZero(parseFloat(colValue.text.s))
     ELSE Zero

\* column-value-extractor.js, as the coordinator calls it: the type is the
\* one in the response
extractColumnValue(c, i) ==
  LET colValue == RemoteColumnValue(c, i)
      type == BoardColumns[c].type
  IN IF type = "numbers"
       THEN (IF colValue.number # Null THEN colValue.number ELSE colValue.text)
     ELSE IF type = "formula"
       THEN (IF colValue.display_value # Null THEN colValue.display_value
             ELSE colValue.text)
     ELSE colValue.text

-----------------------------------------------------------------------------
(* strategy-selector.js *)

COMPLEX_COLUMN_PREFIXES == {"formula_", "lookup_", "mirror_"}

isComplexColumnId(columnId) == columnId[1] \in COMPLEX_COLUMN_PREFIXES

\* analyzeMirrorTarget(mirrorColumn).isComplex
analyzeMirrorTarget(column) == column.tcol # NOCOL /\ isComplexColumnId(column.tcol)

analyzeFormulaDependencies(dependencyColumnIds) ==
  LET n == Len(dependencyColumnIds)
      complexCount == Cardinality({k \in 1..n : isComplexColumnId(dependencyColumnIds[k])})
      simpleCount == n - complexCount
  IN [allComplex |-> simpleCount = 0 /\ complexCount > 0,
      complexCount |-> complexCount,
      simpleCount |-> simpleCount]

-----------------------------------------------------------------------------
(* parser.js, evaluator.js, index.js: formulas "t1 + t2 + ..." *)

\* extractColumnIds: the referenced column ids, each once, in order of
\* first appearance
RECURSIVE extractColumnIds(_)
extractColumnIds(formula) ==
  IF formula = <<>> THEN <<>>
  ELSE LET front == extractColumnIds(SubSeq(formula, 1, Len(formula) - 1))
           last == formula[Len(formula)]
       IN IF last.ref /\ ~(\E k \in 1..Len(front) : front[k] = last.col)
            THEN Append(front, last.col)
            ELSE front

\* BINARY_OPS['+']
BinaryPlus(a, b) ==
  IF Number(a) # Null /\ Number(b) # Null
    THEN Numv(Number(a).n + Number(b).n)
    ELSE Strv(String(a) \o String(b))

\* evaluateColumnRef: columnValues is a set of <<columnId, value>> pairs
evaluateColumnRef(columnValues, c) ==
  IF \E p \in columnValues : p[1] = c /\ p[2] # Null
    THEN (CHOOSE p \in columnValues : p[1] = c)[2]
    ELSE Empty

evaluateTerm(columnValues, term) ==
  IF term.ref THEN evaluateColumnRef(columnValues, term.col) ELSE Numv(term.lit)

RECURSIVE evaluate(_, _)
evaluate(formula, columnValues) ==
  IF Len(formula) = 1 THEN evaluateTerm(columnValues, formula[1])
  ELSE BinaryPlus(evaluate(SubSeq(formula, 1, Len(formula) - 1), columnValues),
                  evaluateTerm(columnValues, formula[Len(formula)]))

\* formatResult: the display string
formatResult(v) == String(v)

\* evaluateFormula, then the caller's parseFloat(result): isNaN ? result : num
evaluateFormulaToValue(formula, columnValues) ==
  LET result == IF formula = <<>> THEN <<>>
                ELSE formatResult(evaluate(formula, columnValues))
      numResult == parseFloat(result)
  IN IF numResult = Null THEN Strv(result) ELSE numResult

-----------------------------------------------------------------------------
(* tokenizer.js: the Tokenizer.  A formula is a sequence of characters,    *)
(* positions count from 0 as in the code; charAt past the end is           *)
(* undefined.  The modelled formulas hold no '.', so parseFloat of a       *)
(* number's text is the integer it spells.                                 *)

Lower == <<"a", "b", "c", "d", "e", "f", "g", "h", "i", "j", "k", "l", "m",
           "n", "o", "p", "q", "r", "s", "t", "u", "v", "w", "x", "y", "z">>
Upper == <<"A", "B", "C", "D", "E", "F", "G", "H", "I", "J", "K", "L", "M",
           "N", "O", "P", "Q", "R", "S", "T", "U", "V", "W", "X", "Y", "Z">>

Undefined == ""

IsLower(ch) == \E k \in 1..26 : Lower[k] = ch
IsUpper(ch) == \E k \in 1..26 : Upper[k] = ch

\* /\s/, /[a-zA-Z_]/ and /[a-zA-Z0-9_]/
IsSpace(ch) == ch \in {" ", "\t", "\n"}
IsIdentifierStart(ch) == IsLower(ch) \/ IsUpper(ch) \/ ch = "_"
IsIdentifierPart(ch) == IsIdentifierStart(ch) \/ IsDigit(ch)

\* String.prototype.toUpperCase
UpperChar(ch) == IF IsLower(ch) THEN Upper[CHOOSE k \in 1..26 : Lower[k] = ch]
                 ELSE ch
toUpperCase(s) == [k \in 1..Len(s) |-> UpperChar(s[k])]

\* String.prototype.trim
RECURSIVE trimStart(_)
trimStart(s) == IF s # <<>> /\ IsSpace(Head(s)) THEN trimStart(Tail(s)) ELSE s
RECURSIVE trimEnd(_)
trimEnd(s) == IF s # <<>> /\ IsSpace(s[Len(s)])
                THEN trimEnd(SubSeq(s, 1, Len(s) - 1)) ELSE s
trim(s) == trimEnd(trimStart(s))

Boolv(b) == [t |-> "bool", n |-> IF b THEN 1 ELSE 0, s |-> <<>>]

OPERATORS == {<<"+">>, <<"-">>, <<"*">>, <<"/">>, <<"%">>, <<">">>, <<"<">>,
              <<"=">>, <<">", "=">>, <<"<", "=">>, <<"<", ">">>, <<"&">>}
TWO_CHAR_OPERATORS == {<<">", "=">>, <<"<", "=">>, <<"<", ">">>}

\* new Token(type, value, position); a column reference's value is
\* {columnId, field}: value holds the columnId, field the field
Token(type, value, field, position) ==
  [type |-> type, value |-> value, field |-> field, position |-> position]

\* readOperator's null, and tokens[pos] past the end
NullToken == Token("null", Null, Null, 0)
UndefinedToken == Token("undefined", Null, Null, 0)

\* peek(offset) at position pos, and formula.slice(from, to)
charAt(text, pos) == IF pos + 1 <= Len(text) THEN text[pos + 1] ELSE Undefined
slice(text, from, to) == SubSeq(text, from + 1, to)

RECURSIVE skipWhitespace(_, _)
skipWhitespace(text, pos) ==
  IF pos < Len(text) /\ IsSpace(charAt(text, pos))
    THEN skipWhitespace(text, pos + 1)
    ELSE pos

\* the loop of readNumber: the position after the digits and one '.'
RECURSIVE readNumberDigits(_, _, _)
readNumberDigits(text, pos, hasDecimal) ==
  IF pos >= Len(text) THEN pos
  ELSE IF IsDigit(charAt(text, pos)) THEN readNumberDigits(text, pos + 1, hasDecimal)
  ELSE IF charAt(text, pos) = "." /\ ~hasDecimal THEN readNumberDigits(text, pos + 1, TRUE)
  ELSE pos

readNumber(text, start) ==
  LET afterSign == IF charAt(text, start) = "-" THEN start + 1 ELSE start
      end == readNumberDigits(text, afterSign, FALSE)
  IN [token |-> Token("NUMBER", parseFloat(slice(text, start, end)), Null, start),
      pos |-> end]

\* the loop of readString; an unterminated string ends with the formula
RECURSIVE readStringChars(_, _, _, _, _)
readStringChars(text, start, pos, quote, value) ==
  IF pos >= Len(text) THEN [token |-> Token("STRING", Strv(value), Null, start), pos |-> pos]
  ELSE IF charAt(text, pos) = quote
    THEN [token |-> Token("STRING", Strv(value), Null, start), pos |-> pos + 1]
  ELSE IF charAt(text, pos) = "\\" /\ charAt(text, pos + 1) = quote
    THEN readStringChars(text, start, pos + 2, quote, Append(value, quote))
  ELSE readStringChars(text, start, pos + 1, quote, Append(value, charAt(text, pos)))

readString(text, start) ==
  readStringChars(text, start, start + 1, charAt(text, start), <<>>)

\* the loop of readColumnRef; field is null until a '#' is read
RECURSIVE readColumnRefChars(_, _, _, _, _, _)
readColumnRefChars(text, start, pos, columnId, field, readingField) ==
  IF pos >= Len(text)
    THEN [token |-> Token("COLUMN_REF", Strv(trim(columnId)), field, start), pos |-> pos]
  ELSE IF charAt(text, pos) = "}"
    THEN [token |-> Token("COLUMN_REF", Strv(trim(columnId)), field, start), pos |-> pos + 1]
  ELSE IF charAt(text, pos) = "#"
    THEN readColumnRefChars(text, start, pos + 1, columnId, Empty, TRUE)
  ELSE IF readingField
    THEN readColumnRefChars(text, start, pos + 1, columnId,
                            Strv(Append(field.s, charAt(text, pos))), readingField)
  ELSE readColumnRefChars(text, start, pos + 1, Append(columnId, charAt(text, pos)),
                          field, readingField)

readColumnRef(text, start) ==
  readColumnRefChars(text, start, start + 1, <<>>, Null, FALSE)

RECURSIVE readIdentifierChars(_, _)
readIdentifierChars(text, pos) ==
  IF pos < Len(text) /\ IsIdentifierPart(charAt(text, pos))
    THEN readIdentifierChars(text, pos + 1)
    ELSE pos

\* TRUE and FALSE are BOOLEAN tokens; every other identifier, in
\* FUNCTION_NAMES or not, is a FUNCTION token
readIdentifier(text, start) ==
  LET end == readIdentifierChars(text, start)
      upperValue == toUpperCase(slice(text, start, end))
  IN IF upperValue = <<"T", "R", "U", "E">> \/ upperValue = <<"F", "A", "L", "S", "E">>
       THEN [token |-> Token("BOOLEAN", Boolv(upperValue = <<"T", "R", "U", "E">>), Null, start),
             pos |-> end]
       ELSE [token |-> Token("FUNCTION", Strv(upperValue), Null, start), pos |-> end]

readOperator(text, start) ==
  LET char == charAt(text, start)
      twoChar == IF charAt(text, start + 1) = Undefined THEN <<char>>
                 ELSE <<char, charAt(text, start + 1)>>
  IN IF twoChar \in TWO_CHAR_OPERATORS
       THEN [token |-> Token("OPERATOR", Strv(twoChar), Null, start), pos |-> start + 2]
     ELSE IF <<char>> \in OPERATORS
       THEN [token |-> Token("OPERATOR", Strv(<<char>>), Null, start), pos |-> start + 1]
     ELSE [token |-> NullToken, pos |-> start + 1]

\* nextToken at position pos0: the token, or null, and the new position
nextToken(text, pos0) ==
  LET pos == skipWhitespace(text, pos0)
      char == charAt(text, pos)
  IN IF pos >= Len(text) THEN [token |-> Token("EOF", Null, Null, pos), pos |-> pos]
     ELSE IF IsDigit(char) \/ (char = "-" /\ IsDigit(charAt(text, pos + 1)))
       THEN readNumber(text, pos)
     ELSE IF char = "\"" \/ char = "'" THEN readString(text, pos)
     ELSE IF char = "{" THEN readColumnRef(text, pos)
     ELSE IF IsIdentifierStart(char) THEN readIdentifier(text, pos)
     ELSE IF char = "(" THEN [token |-> Token("LPAREN", Strv(<<"(">>), Null, pos), pos |-> pos + 1]
     ELSE IF char = ")" THEN [token |-> Token("RPAREN", Strv(<<")">>), Null, pos), pos |-> pos + 1]
     ELSE IF char = "," THEN [token |-> Token("COMMA", Strv(<<",">>), Null, pos), pos |-> pos + 1]
     ELSE readOperator(text, pos)

-----------------------------------------------------------------------------
(* parser.js: the Parser.  A parse step returns the node, the position     *)
(* after it, and the message of the Error thrown ("" when none).           *)

PRECEDENCE(op) ==
  IF op \in {<<"<">>, <<">">>, <<"=">>, <<"<", "=">>, <<">", "=">>, <<"<", ">">>} THEN 1
  ELSE IF op \in {<<"+">>, <<"-">>} THEN 2
  ELSE IF op \in {<<"*">>, <<"/">>, <<"%">>} THEN 3
  ELSE IF op = <<"&">> THEN 4
  ELSE 0 - 1

\* Math.PI is no integer: a value of its own
MathPI == [t |-> "real", n |-> 3, s |-> <<"P", "I">>]

\* the AST factory
literal(value, dataType) == [type |-> "literal", value |-> value, dataType |-> dataType]
columnRef(columnId, field) == [type |-> "column_ref", columnId |-> columnId, field |-> field]
functionCall(name, args) == [type |-> "function_call", name |-> name, args |-> args]
binaryOp(operator, left, right) ==
  [type |-> "binary_op", operator |-> operator, left |-> left, right |-> right]
unaryOp(operator, operand) == [type |-> "unary_op", operator |-> operator, operand |-> operand]

NoNode == [type |-> "none"]
Parsed(node, pos) == [node |-> node, pos |-> pos, err |-> ""]
Thrown(message, pos) == [node |-> NoNode, pos |-> pos, err |-> message]

\* peek() and check(type) at position pos
tokenAt(tokens, pos) == IF pos + 1 <= Len(tokens) THEN tokens[pos + 1] ELSE UndefinedToken
check(tokens, pos, type) == tokenAt(tokens, pos).type = type

RECURSIVE parseExpression(_, _, _)
RECURSIVE parseBinaryOperators(_, _, _, _)
RECURSIVE parsePrimary(_, _)
RECURSIVE parseFunctionCall(_, _)
RECURSIVE parseArguments(_, _, _)
RECURSIVE parseGroupedExpression(_, _)

\* the while loop of parseExpression, with left parsed so far
parseBinaryOperators(tokens, pos, minPrecedence, left) ==
  IF ~check(tokens, pos, "OPERATOR") THEN Parsed(left, pos)
  ELSE LET op == tokenAt(tokens, pos).value.s
           precedence == PRECEDENCE(op)
       IN IF precedence < 0 \/ precedence < minPrecedence THEN Parsed(left, pos)
          ELSE LET right == parseExpression(tokens, pos + 1, precedence + 1)
               IN IF right.err # "" THEN right
                  ELSE parseBinaryOperators(tokens, right.pos, minPrecedence,
                                            binaryOp(op, left, right.node))

parseExpression(tokens, pos, minPrecedence) ==
  LET left == parsePrimary(tokens, pos)
  IN IF left.err # "" THEN left
     ELSE parseBinaryOperators(tokens, left.pos, minPrecedence, left.node)

parsePrimary(tokens, pos) ==
  LET token == tokenAt(tokens, pos)
  IN IF token.type \in {"undefined", "EOF"} THEN Parsed(literal(Empty, "string"), pos)
     ELSE IF token.type = "NUMBER" THEN Parsed(literal(token.value, "number"), pos + 1)
     ELSE IF token.type = "STRING" THEN Parsed(literal(token.value, "string"), pos + 1)
     ELSE IF token.type = "BOOLEAN" THEN Parsed(literal(token.value, "boolean"), pos + 1)
     ELSE IF token.type = "COLUMN_REF"
       THEN Parsed(columnRef(token.value.s, token.field), pos + 1)
     ELSE IF token.type = "FUNCTION" THEN parseFunctionCall(tokens, pos)
     ELSE IF token.type = "LPAREN" THEN parseGroupedExpression(tokens, pos)
     ELSE IF token.type = "OPERATOR"
       THEN IF token.value.s = <<"-">>
              THEN LET operand == parsePrimary(tokens, pos + 1)
                   IN IF operand.err # "" THEN operand
                      ELSE Parsed(unaryOp(<<"-">>, operand.node), operand.pos)
              ELSE Thrown("Unexpected operator", pos)
     ELSE Thrown("Unexpected token", pos)

\* the while loop of parseFunctionCall, with the arguments parsed so far
parseArguments(tokens, pos, args) ==
  IF ~check(tokens, pos, "COMMA") THEN [args |-> args, pos |-> pos, err |-> ""]
  ELSE LET arg == parseExpression(tokens, pos + 1, 0)
       IN IF arg.err # "" THEN [args |-> args, pos |-> arg.pos, err |-> arg.err]
          ELSE parseArguments(tokens, arg.pos, Append(args, arg.node))

parseFunctionCall(tokens, pos) ==
  LET name == tokenAt(tokens, pos).value.s
      first == parseExpression(tokens, pos + 2, 0)
      rest == parseArguments(tokens, first.pos, <<first.node>>)
      list == IF check(tokens, pos + 2, "RPAREN")
                THEN [args |-> <<>>, pos |-> pos + 2, err |-> ""]
              ELSE IF first.err # "" THEN [args |-> <<>>, pos |-> first.pos, err |-> first.err]
              ELSE rest
  IN IF ~check(tokens, pos + 1, "LPAREN")
       THEN IF name = <<"T", "R", "U", "E">> THEN Parsed(literal(Boolv(TRUE), "boolean"), pos + 1)
            ELSE IF name = <<"F", "A", "L", "S", "E">>
              THEN Parsed(literal(Boolv(FALSE), "boolean"), pos + 1)
            ELSE IF name = <<"P", "I">> THEN Parsed(literal(MathPI, "number"), pos + 1)
            ELSE Parsed(functionCall(name, <<>>), pos + 1)
     ELSE IF list.err # "" THEN Thrown(list.err, list.pos)
     ELSE IF ~check(tokens, list.pos, "RPAREN")
       THEN Thrown("Expected ')' after function arguments", list.pos)
     ELSE Parsed(functionCall(name, list.args), list.pos + 1)

\* before Parser.parse has run
NotParsed == [node |-> NoNode, pos |-> 0, err |-> "not parsed"]

parseGroupedExpression(tokens, pos) ==
  LET expr == parseExpression(tokens, pos + 1, 0)
  IN IF ~check(tokens, pos, "LPAREN") THEN Thrown("Expected '('", pos)
     ELSE IF expr.err # "" THEN expr
     ELSE IF ~check(tokens, expr.pos, "RPAREN") THEN Thrown("Expected ')'", expr.pos)
     ELSE Parsed(expr.node, expr.pos + 1)

\* Parser.parse: tokens left over after the expression are only logged
parse(tokens) ==
  IF tokens = <<>> \/ (Len(tokens) = 1 /\ tokens[1].type = "EOF")
    THEN Parsed(literal(Empty, "string"), 0)
    ELSE parseExpression(tokens, 0, 0)

-----------------------------------------------------------------------------
(* evaluator.js: the Evaluator, and the functions of functions/logical.js  *)
(* that the modelled formulas call.                                        *)

\* Boolean(v)
Boolean(v) ==
  IF v.t = "num" THEN v.n # 0
  ELSE IF v.t = "str" THEN v.s # <<>>
  ELSE IF v.t = "bool" THEN v.n = 1
  ELSE v.t # "null"

\* Number(v) || 0
NumberOrZero(v) == IF Number(v) = Null THEN 0 ELSE Number(v).n

\* a / b of two integers: a whole quotient, or the fraction as a value of its own
Quotient(a, b) ==
  LET sign == IF (a < 0) = (b < 0) THEN 1 ELSE 0 - 1
      absA == IF a < 0 THEN 0 - a ELSE a
      absB == IF b < 0 THEN 0 - b ELSE b
  IN IF absA % absB = 0 THEN Numv(sign * (absA \div absB))
     ELSE [t |-> "real", n |-> a, s |-> IntToStr(b)]

\* a % b of two integers: the sign of the dividend
Remainder(a, b) ==
  LET absA == IF a < 0 THEN 0 - a ELSE a
      absB == IF b < 0 THEN 0 - b ELSE b
  IN IF a < 0 THEN 0 - (absA % absB) ELSE absA % absB

BothNumbers(a, b) == Number(a) # Null /\ Number(b) # Null

\* BINARY_OPS whose '/' and '%' divide without testing the divisor
BINARY_OPSUnguarded(operator, a, b) ==
  IF operator = <<"+">> THEN BinaryPlus(a, b)
  ELSE IF operator = <<"-">> THEN Numv(NumberOrZero(a) - NumberOrZero(b))
  ELSE IF operator = <<"*">> THEN Numv(NumberOrZero(a) * NumberOrZero(b))
  ELSE IF operator \in {<<"/">>, <<"%">>}
    THEN IF Number(b) = Null \/ Number(b).n = 0 THEN Null
         ELSE IF operator = <<"/">> THEN Quotient(NumberOrZero(a), Number(b).n)
         ELSE Numv(Remainder(NumberOrZero(a), Number(b).n))
  ELSE Empty

BINARY_OPS(operator, a, b) ==
  IF operator = <<"+">> THEN BinaryPlus(a, b)
  ELSE IF operator = <<"-">> THEN Numv(NumberOrZero(a) - NumberOrZero(b))
  ELSE IF operator = <<"*">> THEN Numv(NumberOrZero(a) * NumberOrZero(b))
  ELSE IF operator = <<"/">>
    THEN IF Number(b) = Null THEN Null
         ELSE IF Number(b).n = 0 THEN Zero
         ELSE Quotient(NumberOrZero(a), Number(b).n)
  ELSE IF operator = <<"%">>
    THEN IF Number(b) = Null THEN Null
         ELSE IF Number(b).n = 0 THEN Zero
         ELSE Numv(Remainder(NumberOrZero(a), Number(b).n))
  ELSE IF operator = <<"&">> THEN Strv(String(a) \o String(b))
  ELSE IF operator = <<">">> THEN Boolv(BothNumbers(a, b) /\ Number(a).n > Number(b).n)
  ELSE IF operator = <<"<">> THEN Boolv(BothNumbers(a, b) /\ Number(a).n < Number(b).n)
  ELSE IF operator = <<">", "=">> THEN Boolv(BothNumbers(a, b) /\ Number(a).n >= Number(b).n)
  ELSE IF operator = <<"<", "=">> THEN Boolv(BothNumbers(a, b) /\ Number(a).n <= Number(b).n)
  ELSE IF operator = <<"=">>
    THEN Boolv(IF BothNumbers(a, b) THEN Number(a).n = Number(b).n
               ELSE String(a) = String(b))
  ELSE IF operator = <<"<", ">">>
    THEN Boolv(IF BothNumbers(a, b) THEN Number(a).n # Number(b).n
               ELSE String(a) # String(b))
  ELSE Empty

UNARY_OPS(operator, a) ==
  IF operator = <<"-">> THEN Numv(0 - NumberOrZero(a)) ELSE a

\* functions/numeric.js DIVIDE and MOD
DIVIDE(dividend, divisor) ==
  IF Number(divisor) = Null \/ Number(divisor).n = 0 THEN Zero
  ELSE Quotient(NumberOrZero(dividend), Number(divisor).n)

MOD(number, divisor) ==
  IF Number(divisor) = Null \/ Number(divisor).n = 0 THEN Zero
  ELSE Numv(Remainder(NumberOrZero(number), Number(divisor).n))

\* the argument at place k; a missing argument is undefined
Argument(args, k) == IF k <= Len(args) THEN args[k] ELSE Null

\* getFunction(name)(...args): IF, TRUE and FALSE of functions/logical.js,
\* DIVIDE and MOD of functions/numeric.js; a name outside FUNCTIONS
\* evaluates to ''
FUNCTIONS(name, args) ==
  IF name = <<"I", "F">>
    THEN IF Boolean(Argument(args, 1)) THEN Argument(args, 2)
         ELSE IF Len(args) >= 3 /\ args[3] # Null THEN args[3] ELSE Empty
  ELSE IF name = <<"T", "R", "U", "E">> THEN Boolv(TRUE)
  ELSE IF name = <<"F", "A", "L", "S", "E">> THEN Boolv(FALSE)
  ELSE IF name = <<"D", "I", "V", "I", "D", "E">>
    THEN DIVIDE(Argument(args, 1), Argument(args, 2))
  ELSE IF name = <<"M", "O", "D">> THEN MOD(Argument(args, 1), Argument(args, 2))
  ELSE Empty

\* Evaluator.evaluate(node)
RECURSIVE evaluateNode(_, _)
evaluateNode(node, columnValues) ==
  IF node.type = "literal" THEN node.value
  ELSE IF node.type = "column_ref" THEN evaluateColumnRef(columnValues, node.columnId)
  ELSE IF node.type = "function_call"
    THEN FUNCTIONS(node.name, [k \in 1..Len(node.args) |->
                                 evaluateNode(node.args[k], columnValues)])
  ELSE IF node.type = "binary_op"
    THEN BINARY_OPS(node.operator, evaluateNode(node.left, columnValues),
                    evaluateNode(node.right, columnValues))
  ELSE IF node.type = "unary_op"
    THEN UNARY_OPS(node.operator, evaluateNode(node.operand, columnValues))
  ELSE Empty

-----------------------------------------------------------------------------
(* The session state as one record, so that the synchronous part of a      *)
(* call, which may start several nested calls, is a pure function on it.   *)

St == [calls |-> calls, visited |-> visited, schemaCache |-> schemaCache,
       pendingSchemaRequests |-> pendingSchemaRequests,
       valueCache |-> valueCache, pendingValueRequests |-> pendingValueRequests,
       coordinatorPending |-> coordinatorPending,
       coordinatorCache |-> coordinatorCache,
       coordinatorQueries |-> coordinatorQueries,
       issued |-> issued, windows |-> windows, failures |-> failures,
       hist |-> hist]

\* the promise that frame f of cs awaits has settled
Ready(cs, f) ==
  \/ cs[f].pc \in {"getcol", "dv", "numq", "mirror", "dvb", "mirrorb"}
       /\ cs[f].q # "sent"
  \/ cs[f].pc = "coord" /\ \A r \in cs[f].creq : r.st # "wait"
  \/ cs[f].pc = "deps" /\ \A k \in 1..Len(cs[f].kids) : cs[cs[f].kids[k]].outer # "run"
  \/ cs[f].pc = "fin"
  \/ cs[f].pc = "flush" /\ cs[f].env = {}
  \/ cs[f].pc = "follow" /\ cs[cs[f].follow].inner # "run"

\* continuations are queued in the order their promises settle
Enqueue(queue, cs) ==
  LET queued(f) == \E k \in 1..Len(queue) : queue[k] = f
      fresh(f) == Ready(cs, f) /\ ~queued(f)
  IN queue \o SelectSeq([f \in 1..Len(cs) |-> f], fresh)

CommitQueue(S, queue) ==
  /\ calls' = S.calls
  /\ visited' = S.visited
  /\ schemaCache' = S.schemaCache
  /\ pendingSchemaRequests' = S.pendingSchemaRequests
  /\ valueCache' = S.valueCache
  /\ pendingValueRequests' = S.pendingValueRequests
  /\ coordinatorPending' = S.coordinatorPending
  /\ coordinatorCache' = S.coordinatorCache
  /\ coordinatorQueries' = S.coordinatorQueries
  /\ issued' = S.issued
  /\ windows' = S.windows
  /\ failures' = S.failures
  /\ hist' = S.hist
  /\ microtasks' = Enqueue(queue, S.calls)
  /\ UNCHANGED <<cacheKind, root, engineVars>>

\* a task of the event loop (a caller, a timer, a response) changes the state
Commit(S) == CommitQueue(S, microtasks)

\* the continuation of frame f, at the head of the queue, runs
Run(f, S) ==
  /\ microtasks # <<>>
  /\ Head(microtasks) = f
  /\ CommitQueue(S, Tail(microtasks))

\* a map with a growing domain
Put(m, k, v) == [x \in (DOMAIN m) \cup {k} |-> IF x = k THEN v ELSE m[x]]
Drop(m, k) == [x \in (DOMAIN m) \ {k} |-> m[x]]
EmptyMap == [x \in {} |-> 0]

\* a remote query: apiClient.query(document, variables), issued on behalf
\* of the top-level calls in `by`
Query(kind, board, col, items, cols, by) ==
  [kind |-> kind, board |-> board, col |-> col, items |-> items, cols |-> cols,
   by |-> by]

Issue(S, q) ==
  [S EXCEPT !.issued = IF q \in DOMAIN @ THEN [@ EXCEPT ![q] = @ + 1]
                       ELSE Put(@, q, 1)]

\* the key of the value cache, of the in-flight map and of visitedPaths;
\* the batch-level path key `${boardId}:${columnId}` has item 0
Key(b, c, i) == <<b, c, i>>

NewFrame(kind, top, parent, b, c, items) ==
  [kind |-> kind, top |-> top, parent |-> parent, board |-> b, col |-> c,
   items |-> items, how |-> "new", pc |-> "getcol",
   inner |-> "run", outer |-> "run", res |-> <<>>,
   q |-> "none", follow |-> 0, kids |-> <<>>, creq |-> {},
   env |-> {}, rec |-> <<>>, partial |-> {}, keys |-> {}, i |-> 0]

\* the column the cache holds for (board, column), Null-like record when none
NoColumn == Column("", <<>>, "", "", NOCOL)

LookupColumn(b, c) ==
  IF b \in Boards /\ c \in BoardColumnIds THEN BoardColumns[c] ELSE NoColumn

-----------------------------------------------------------------------------
(* schema-cache.js getColumn: the part that runs before its first await.   *)
(* Returns the state and the frame's query status: "none" when the board   *)
(* is cached, "sent" while the caller awaits a schema fetch.               *)

\* getColumn without the pendingSchemaRequests branch: a lookup that finds
\* the board not cached fetches it
getColumnUndeduplicated(S, kind_, top, b) ==
  IF b \in S.schemaCache THEN [S |-> S, q |-> "none"]
  ELSE [S |-> Issue([S EXCEPT !.pendingSchemaRequests =
                        IF kind_ = "simple" THEN @ \cup {b} ELSE @],
                    Query("schema", b, NOCOL, <<>>, {}, {top})),
        q |-> "sent"]

getColumnSync(S, kind_, top, b) ==
  IF b \in S.schemaCache THEN [S |-> S, q |-> "none"]
  ELSE IF kind_ = "simple" /\ b \in S.pendingSchemaRequests
    THEN [S |-> S, q |-> "sent"]
  ELSE [S |-> Issue([S EXCEPT !.pendingSchemaRequests =
                        IF kind_ = "simple" THEN @ \cup {b} ELSE @],
                    Query("schema", b, NOCOL, <<>>, {}, {top})),
        q |-> "sent"]

-----------------------------------------------------------------------------
(* resolve-column-value.js resolveColumnValue: from the call up to the     *)
(* first await.  The new frame is appended to calls.                       *)

\* resolveColumnValue without the hasPendingValue branch: every arrival on
\* a key that is not cached starts its own resolution
resolveColumnValueUnshared(S, kind_, top, parent, b, c, i) ==
  LET key == Key(b, c, i)
      id == Len(S.calls) + 1
      fr == NewFrame("single", top, parent, b, c, <<i>>)
  IN IF kind_ = "simple" /\ key \in DOMAIN S.valueCache
       THEN [S EXCEPT !.calls = Append(@, [fr EXCEPT !.how = "cached", !.pc = "done",
                                   !.outer = "ok", !.res = <<S.valueCache[key]>>])]
     ELSE LET g == getColumnSync([S EXCEPT !.visited[top] = @ \cup {key}],
                                 kind_, top, b)
          IN [g.S EXCEPT !.calls = Append(@, [fr EXCEPT !.q = g.q]),
                         !.pendingValueRequests =
                            IF kind_ = "simple" THEN Put(@, key, id) ELSE @]

resolveColumnValueSync(S, kind_, top, parent, b, c, i) ==
  LET key == Key(b, c, i)
      id == Len(S.calls) + 1
      fr == NewFrame("single", top, parent, b, c, <<i>>)
  IN IF kind_ = "simple" /\ key \in DOMAIN S.valueCache
       THEN [S EXCEPT !.calls = Append(@, [fr EXCEPT !.how = "cached", !.pc = "done",
                                   !.outer = "ok", !.res = <<S.valueCache[key]>>])]
     ELSE IF kind_ = "simple" /\ key \in DOMAIN S.pendingValueRequests
       THEN [S EXCEPT !.calls = Append(@, [fr EXCEPT !.how = "pending", !.pc = "follow",
                                   !.follow = S.pendingValueRequests[key]])]
     ELSE IF key \in S.visited[top]
       THEN [S EXCEPT !.calls = Append(@, [fr EXCEPT !.how = "cycle", !.pc = "done",
                                   !.outer = "ok", !.res = <<Zero>>])]
     ELSE LET g == getColumnSync([S EXCEPT !.visited[top] = @ \cup {key}],
                                 kind_, top, b)
          IN [g.S EXCEPT !.calls = Append(@, [fr EXCEPT !.q = g.q]),
                         !.pendingValueRequests =
                            IF kind_ = "simple" THEN Put(@, key, id) ELSE @]

\* resolveColumnValueBatch up to its first await
resolveColumnValueBatchSync(S, kind_, top, parent, b, c, itemIds) ==
  LET key == Key(b, c, 0)
      fr == NewFrame("batch", top, parent, b, c, itemIds)
  IN IF itemIds = <<>>
       THEN [S EXCEPT !.calls = Append(@, [fr EXCEPT !.how = "empty", !.pc = "done",
                                   !.inner = "ok", !.outer = "ok"])]
     ELSE IF key \in S.visited[top]
       THEN [S EXCEPT !.calls = Append(@, [fr EXCEPT !.how = "cycle", !.pc = "done",
                                   !.inner = "ok", !.outer = "ok",
                                   !.res = [k \in 1..Len(itemIds) |-> Zero],
                                   !.keys = {itemIds[k] : k \in 1..Len(itemIds)}])]
     ELSE LET g == getColumnSync([S EXCEPT !.visited[top] = @ \cup {key}],
                                 kind_, top, b)
          IN [g.S EXCEPT !.calls = Append(@, [fr EXCEPT !.q = g.q])]

\* Promise.all(keys.map(resolveColumnValue)): the calls start one after the
\* other, each up to its first await; keys are <<board, column, item>>
RECURSIVE startAll(_, _, _, _, _)
startAll(S, kind_, top, parent, keys) ==
  IF keys = <<>> THEN S
  ELSE startAll(resolveColumnValueSync(S, kind_, top, parent,
                                       Head(keys)[1], Head(keys)[2], Head(keys)[3]),
                kind_, top, parent, Tail(keys))

\* Promise.all(columns.map(resolveColumnValueBatch))
RECURSIVE startAllBatch(_, _, _, _, _, _, _)
startAllBatch(S, kind_, top, parent, b, cols, itemIds) ==
  IF cols = <<>> THEN S
  ELSE startAllBatch(resolveColumnValueBatchSync(S, kind_, top, parent, b,
                                                 Head(cols), itemIds),
                     kind_, top, parent, b, Tail(cols), itemIds)

\* the frames that the last n calls of S created
LastFrames(S, n) == [k \in 1..n |-> Len(S.calls) - n + k]

-----------------------------------------------------------------------------
(* resolveColumnValueInternal, handleFormula, handleMirror *)

\* step 6 of resolveColumnValueInternal: cache the result and return it
returnResult(S, kind_, f, v) ==
  LET fr == S.calls[f]
  IN [S EXCEPT !.calls[f] = [fr EXCEPT !.inner = "ok", !.res = <<v>>, !.pc = "fin"],
               !.valueCache = IF kind_ = "simple"
                                THEN Put(@, Key(fr.board, fr.col, fr.items[1]), v)
                                ELSE @]

\* a column that is not found raised as an error
returnNotFoundThrows(S, f) ==
  [S EXCEPT !.calls[f] = [@ EXCEPT !.inner = "err", !.pc = "fin"]]

\* `return ''` for a column that is not found: nothing is cached
returnNotFound(S, f) ==
  [S EXCEPT !.calls[f] = [@ EXCEPT !.inner = "ok", !.res = <<Empty>>, !.pc = "fin"]]

\* an error thrown out of resolveColumnValueInternal
throwError(S, f) ==
  [S EXCEPT !.calls[f] = [@ EXCEPT !.inner = "err", !.pc = "fin"]]

\* apiClient.query(...) sent by frame f, which then awaits it at pc
sendQuery(S, f, kind_, pc) ==
  LET fr == S.calls[f]
  IN Issue([S EXCEPT !.calls[f] = [fr EXCEPT !.q = "sent", !.pc = pc]],
           Query(kind_, fr.board, fr.col, fr.items, {}, {fr.top}))

\* graphql-queries.js fetchDisplayValueBatch: the chunks of 100 (the
\* platform's limit)
chunkSize == 100

\* fetchDisplayValueBatch that sends every remaining id in one query
fetchDisplayValueBatchUnchunked(S, f, i) ==
  LET fr == S.calls[f]
      chunk == slice(fr.items, i, Len(fr.items))
  IN Issue([S EXCEPT !.calls[f] = [fr EXCEPT !.q = "sent", !.pc = "dvb", !.i = i]],
           Query("dvbatch", fr.board, fr.col, chunk, {}, {fr.top}))

\* fetchDisplayValueBatch called by frame f: the iteration of its loop that
\* starts at i, up to `await apiClient.query(GET_DISPLAY_VALUE_BATCH, ...)`
fetchDisplayValueBatch(S, f, i) ==
  LET fr == S.calls[f]
      end == IF i + chunkSize < Len(fr.items) THEN i + chunkSize ELSE Len(fr.items)
      chunk == slice(fr.items, i, end)
  IN Issue([S EXCEPT !.calls[f] = [fr EXCEPT !.q = "sent", !.pc = "dvb", !.i = i]],
           Query("dvbatch", fr.board, fr.col, chunk, {}, {fr.top}))

\* schema-cache.js coordinatorRequest(itemId, columnId) called by frame f
coordinatorRequest(S, f, itemId, columnId) ==
  LET cacheKey == <<itemId, columnId>>
  IN IF cacheKey \in DOMAIN S.coordinatorCache
       THEN [S EXCEPT !.calls[f].creq = @ \cup
               {[col |-> columnId, st |-> "ok", val |-> S.coordinatorCache[cacheKey]]}]
     ELSE LET opens == itemId \notin DOMAIN S.coordinatorPending
              old == IF opens
                       THEN [columns |-> {}, resolvers |-> {}, timer |-> FALSE]
                       ELSE S.coordinatorPending[itemId]
              opened == IF itemId \in DOMAIN S.windows THEN S.windows[itemId] ELSE 0
              new == [columns |-> old.columns \cup {columnId},
                      resolvers |-> old.resolvers \cup {<<columnId, f>>},
                      timer |-> TRUE]
          IN [S EXCEPT !.coordinatorPending = Put(@, itemId, new),
                       !.windows = IF opens THEN Put(@, itemId, opened + 1) ELSE @,
                       !.calls[f].creq = @ \cup
                          {[col |-> columnId, st |-> "wait", val |-> Null]}]

RECURSIVE coordinatorRequestAll(_, _, _, _)
coordinatorRequestAll(S, f, itemId, cols) ==
  IF cols = <<>> THEN S
  ELSE coordinatorRequestAll(coordinatorRequest(S, f, itemId, Head(cols)),
                             f, itemId, Tail(cols))

\* the dependencies of frame f start as nested resolveColumnValue calls
startDependencies(S, kind_, f, cols) ==
  LET fr == S.calls[f]
      keys == [k \in 1..Len(cols) |-> Key(fr.board, cols[k], fr.items[1])]
      S2 == startAll(S, kind_, fr.top, f, keys)
  IN [S2 EXCEPT !.calls[f] = [@ EXCEPT !.pc = "deps", !.rec = cols,
                                       !.kids = LastFrames(S2, Len(cols))]]

\* handleFormula up to its first await
handleFormulaStart(S, kind_, f) ==
  LET fr == S.calls[f]
      formula == LookupColumn(fr.board, fr.col).formula
      dependencyColumnIds == extractColumnIds(formula)
      depAnalysis == analyzeFormulaDependencies(dependencyColumnIds)
      useCoordinator == /\ kind_ = "simple"
                        /\ Len(dependencyColumnIds) > 1
                        /\ depAnalysis.simpleCount > 0
  IN IF formula = <<>> THEN returnResult(S, kind_, f, Zero)
     ELSE IF dependencyColumnIds = <<>>
       THEN returnResult(S, kind_, f, evaluateFormulaToValue(formula, {}))
     ELSE IF useCoordinator
       THEN [coordinatorRequestAll(S, f, fr.items[1], dependencyColumnIds)
               EXCEPT !.calls[f].pc = "coord"]
     ELSE startDependencies(S, kind_, f, dependencyColumnIds)

\* resolveColumnValueInternal probing the display value of every column
\* that is found, mirrors included
internalGotColumnProbesAll(S, kind_, f) ==
  LET fr == S.calls[f]
      found == fr.q # "err" /\ fr.board \in S.schemaCache
               /\ fr.col \in BoardColumnIds
  IN IF ~found THEN returnNotFound(S, f) ELSE sendQuery(S, f, "dv", "dv")

\* resolveColumnValueInternal after `await schemaCache.getColumn(...)`
internalGotColumn(S, kind_, f) ==
  LET fr == S.calls[f]
      found == fr.q # "err" /\ fr.board \in S.schemaCache
               /\ fr.col \in BoardColumnIds
      column == LookupColumn(fr.board, fr.col)
      shouldSkipDisplayValue ==
        /\ column.formula # <<>>
        /\ analyzeFormulaDependencies(extractColumnIds(column.formula)).allComplex
  IN IF ~found THEN returnNotFound(S, f)
     ELSE IF column.type = "mirror" THEN sendQuery(S, f, "mirror", "mirror")
     ELSE IF column.type = "formula" /\ shouldSkipDisplayValue
       THEN handleFormulaStart(S, kind_, f)
     ELSE sendQuery(S, f, "dv", "dv")

\* the display value as resolveColumnValueInternal types it
typedDisplayValue(dv) ==
  IF dv.t = "num" THEN dv
  ELSE IF IsPureNumber(dv.s) THEN parseFloat(dv.s)
  ELSE dv

\* resolveColumnValueInternal after `await fetchDisplayValue(...)`
internalGotDisplayValue(S, kind_, f) ==
  LET fr == S.calls[f]
      column == LookupColumn(fr.board, fr.col)
      displayValue == fetchDisplayValue(fr.col, fr.items[1])
  IN IF fr.q = "err" THEN throwError(S, f)
     ELSE IF ~isNullishDisplayValue(displayValue)
       THEN returnResult(S, kind_, f, typedDisplayValue(displayValue))
     ELSE IF column.type = "formula" THEN handleFormulaStart(S, kind_, f)
     ELSE IF column.type = "numbers" THEN sendQuery(S, f, "numeric", "numq")
     ELSE returnResult(S, kind_, f, Empty)

\* resolveColumnValueInternal after `await fetchNumericValue(...)`
internalGotNumericValue(S, kind_, f) ==
  LET fr == S.calls[f]
  IN IF fr.q = "err" THEN throwError(S, f)
     ELSE returnResult(S, kind_, f, fetchNumericValue(fr.col, fr.items[1]))

\* parseDisplayValue of handle-formula.js
parseDisplayValue(v) ==
  IF v.t = "num" THEN v
  ELSE IF parseFloat(v.s) = Null THEN v ELSE parseFloat(v.s)

\* isNumericValue of handle-formula.js (no ',' and no '.' in the modelled data)
isNumericValue(v) == v.t = "num" \/ (v.t = "str" /\ IsPureNumber(v.s))

\* the value the coordinator delivered to frame f for column c; a rejected
\* request is caught and counts as null
coordinatorValue(fr, c) ==
  LET r == CHOOSE r \in fr.creq : r.col = c
  IN IF r.st = "ok" THEN r.val ELSE Null

usesCoordinatorValue(fr, c) ==
  LET value == coordinatorValue(fr, c)
  IN /\ ~isNullishDisplayValue(value)
     /\ (~isComplexColumnId(c) \/ isNumericValue(value))

\* the elements of seq that satisfy Keep, in order
RECURSIVE SelectCols(_, _, _)
SelectCols(fr, cols, keepUsed) ==
  IF cols = <<>> THEN <<>>
  ELSE IF usesCoordinatorValue(fr, Head(cols)) = keepUsed
    THEN <<Head(cols)>> \o SelectCols(fr, Tail(cols), keepUsed)
    ELSE SelectCols(fr, Tail(cols), keepUsed)

\* handleFormula after `await Promise.all(displayValuePromises)`
handleFormulaGotCoordinator(S, kind_, f) ==
  LET fr == S.calls[f]
      formula == LookupColumn(fr.board, fr.col).formula
      deps == extractColumnIds(formula)
      used == SelectCols(fr, deps, TRUE)
      needsRecursion == SelectCols(fr, deps, FALSE)
      columnValues == {<<used[k], parseDisplayValue(coordinatorValue(fr, used[k]))>> :
                         k \in 1..Len(used)}
      S1 == [S EXCEPT !.calls[f].env = columnValues]
  IN IF needsRecursion # <<>> THEN startDependencies(S1, kind_, f, needsRecursion)
     ELSE returnResult(S1, kind_, f, evaluateFormulaToValue(formula, columnValues))

\* every nested call counted as failed: its value is dropped
kidValueDropped(S, k, onError) == onError

\* the value a settled nested call contributes; onError when it rejected
kidValue(S, k, onError) ==
  IF S.calls[k].outer = "ok" THEN S.calls[k].res[1] ELSE onError

\* handleFormula after `await Promise.all(...)` of the nested calls
handleFormulaGotDependencies(S, kind_, f) ==
  LET fr == S.calls[f]
      formula == LookupColumn(fr.board, fr.col).formula
      columnValues == fr.env \cup
        {<<fr.rec[k], kidValue(S, fr.kids[k], Zero)>> : k \in 1..Len(fr.rec)}
  IN returnResult(S, kind_, f, evaluateFormulaToValue(formula, columnValues))

-----------------------------------------------------------------------------
(* handle-mirror.js handleMirror *)

RECURSIVE SumSeq(_)
SumSeq(ns) == IF ns = <<>> THEN 0 ELSE Head(ns) + SumSeq(Tail(ns))

\* column-value-extractor.js applyAggregationFunction over integers
\* (avg is exact only when the sum divides evenly)
applyAggregationFunction(ns, func) ==
  IF ns = <<>> THEN 0
  ELSE CASE func = "sum" -> SumSeq(ns)
         [] func \in {"avg", "average"} -> SumSeq(ns) \div Len(ns)
         [] func = "count" -> Len(ns)
         [] func = "min" -> CHOOSE m \in {ns[k] : k \in 1..Len(ns)} :
                              \A k \in 1..Len(ns) : m <= ns[k]
         [] func = "max" -> CHOOSE m \in {ns[k] : k \in 1..Len(ns)} :
                              \A k \in 1..Len(ns) : m >= ns[k]
         [] OTHER -> SumSeq(ns)

\* settings.function || 'sum'
aggFuncOf(column) == IF column.fn = "" THEN "sum" ELSE column.fn

\* (aggFunc === 'sum' || aggFunc === 'avg' || aggFunc === 'count') ? 0 : ''
mirrorDefault(aggFunc) == IF aggFunc \in {"sum", "avg", "count"} THEN Zero ELSE Empty

\* the fast path on a display_value without ',' and without '.'
mirrorDisplayValue(dv, aggFunc) ==
  IF dv.t = "str" /\ IsPureNumber(dv.s)
    THEN Numv(applyAggregationFunction(<<parseFloat(dv.s).n>>, aggFunc))
  ELSE IF Number(dv) # Null THEN Number(dv)
  ELSE dv

RECURSIVE JoinComma(_)
JoinComma(vs) ==
  IF vs = <<>> THEN <<>>
  ELSE IF Len(vs) = 1 THEN String(vs[1])
  ELSE String(vs[1]) \o <<",", " ">> \o JoinComma(Tail(vs))

RECURSIVE FilterValid(_)
FilterValid(vs) ==
  IF vs = <<>> THEN <<>>
  ELSE IF Head(vs) = Null \/ Head(vs) = Empty THEN FilterValid(Tail(vs))
  ELSE <<Head(vs)>> \o FilterValid(Tail(vs))

\* step 5 of handleMirror: aggregate the resolved linked values
aggregateMirror(vs, aggFunc) ==
  LET validResults == FilterValid(vs)
  IN IF validResults = <<>> THEN mirrorDefault(aggFunc)
     ELSE IF \A k \in 1..Len(validResults) : validResults[k].t = "num"
       THEN Numv(applyAggregationFunction(
                   [k \in 1..Len(validResults) |-> validResults[k].n], aggFunc))
     ELSE Strv(JoinComma(validResults))

\* handleMirror after `await fetchMirrorDeep(...)`
handleMirrorGotData(S, kind_, f) ==
  LET fr == S.calls[f]
      column == LookupColumn(fr.board, fr.col)
      aggFunc == aggFuncOf(column)
      displayValue == RemoteColumnValue(fr.col, fr.items[1]).display_value
      mirroredItems == RemoteMirroredItems(fr.col, fr.items[1])
      keys == [k \in 1..Len(mirroredItems) |->
                 Key(mirroredItems[k][1], column.tcol, mirroredItems[k][2])]
      S2 == startAll(S, kind_, fr.top, f, keys)
  IN IF fr.q = "err" THEN throwError(S, f)
     ELSE IF ~isNullishDisplayValue(displayValue)
       THEN returnResult(S, kind_, f, mirrorDisplayValue(displayValue, aggFunc))
     ELSE IF mirroredItems = <<>> \/ column.tcol = NOCOL
       THEN returnResult(S, kind_, f, mirrorDefault(aggFunc))
     ELSE [S2 EXCEPT !.calls[f] = [@ EXCEPT !.pc = "deps",
                                            !.kids = LastFrames(S2, Len(keys))]]

\* handleMirror aggregating the linked values last to first
handleMirrorGotLinkedReversed(S, kind_, f) ==
  LET fr == S.calls[f]
      aggFunc == aggFuncOf(LookupColumn(fr.board, fr.col))
      n == Len(fr.kids)
      recursionResults == [k \in 1..n |-> kidValue(S, fr.kids[n + 1 - k], Null)]
  IN returnResult(S, kind_, f, aggregateMirror(recursionResults, aggFunc))

\* handleMirror after `await Promise.all(...)` of the linked items
handleMirrorGotLinked(S, kind_, f) ==
  LET fr == S.calls[f]
      aggFunc == aggFuncOf(LookupColumn(fr.board, fr.col))
      recursionResults == [k \in 1..Len(fr.kids) |-> kidValue(S, fr.kids[k], Null)]
  IN returnResult(S, kind_, f, aggregateMirror(recursionResults, aggFunc))

-----------------------------------------------------------------------------
(* resolveColumnValue: the finally block, and a subscriber's return *)

\* a finally block that leaves the key in visitedPaths
resolveFinallyKeepsPath(S, f) ==
  LET fr == S.calls[f]
      key == Key(fr.board, fr.col, fr.items[1])
  IN [S EXCEPT !.calls[f] = [fr EXCEPT !.outer = fr.inner, !.pc = "done"],
               !.pendingValueRequests = Drop(@, key)]

\* a finally block that caches 0 for the key of a resolution that threw
resolveFinallyCachesFailure(S, f) ==
  LET fr == S.calls[f]
      key == Key(fr.board, fr.col, fr.items[1])
  IN [S EXCEPT !.calls[f] = [fr EXCEPT !.outer = fr.inner, !.pc = "done"],
               !.visited[fr.top] = @ \ {key},
               !.pendingValueRequests = Drop(@, key),
               !.valueCache = IF fr.inner = "err" THEN Put(@, key, Zero) ELSE @]

resolveFinally(S, f) ==
  LET fr == S.calls[f]
      key == Key(fr.board, fr.col, fr.items[1])
  IN [S EXCEPT !.calls[f] = [fr EXCEPT !.outer = fr.inner, !.pc = "done"],
               !.visited[fr.top] = @ \ {key},
               !.pendingValueRequests = Drop(@, key)]

\* `return schemaCache.getPendingValue(...)`: the call settles as the
\* registered resolutionPromise settles
followSettled(S, f) ==
  LET fr == S.calls[f]
      owner == S.calls[fr.follow]
  IN [S EXCEPT !.calls[f] = [fr EXCEPT !.outer = owner.inner, !.res = owner.res,
                                       !.pc = "done"]]

-----------------------------------------------------------------------------
(* resolveColumnValueBatch, handleFormulaBatch and handleMirrorBatch *)

\* map.get(item) on the map that holds a set of <<item, value>> pairs
PairValue(pairs, item) ==
  IF \E p \in pairs : p[1] = item THEN (CHOOSE p \in pairs : p[1] = item)[2] ELSE Null

\* return (or throw) through the finally block of resolveColumnValueBatch
batchSettle(S, f, st, pairs) ==
  LET fr == S.calls[f]
  IN [S EXCEPT !.calls[f] = [fr EXCEPT !.inner = st, !.outer = st, !.pc = "done",
                  !.res = IF st = "ok"
                            THEN [k \in 1..Len(fr.items) |-> PairValue(pairs, fr.items[k])]
                            ELSE <<>>,
                  !.keys = IF st = "ok" THEN {p[1] : p \in pairs} ELSE {}],
               !.visited[fr.top] = @ \ {Key(fr.board, fr.col, 0)}]

\* handleFormulaBatch up to its first await, for the items needing recursion
handleFormulaBatchStart(S, kind_, f, itemIds) ==
  LET fr == S.calls[f]
      formula == LookupColumn(fr.board, fr.col).formula
      dependencyColumnIds == extractColumnIds(formula)
      Same(v) == {<<itemIds[k], v>> : k \in 1..Len(itemIds)}
      S2 == startAllBatch(S, kind_, fr.top, f, fr.board, dependencyColumnIds, itemIds)
  IN IF formula = <<>> THEN batchSettle(S, f, "ok", fr.partial \cup Same(Zero))
     ELSE IF dependencyColumnIds = <<>>
       THEN batchSettle(S, f, "ok",
                        fr.partial \cup Same(evaluateFormulaToValue(formula, {})))
     ELSE [S2 EXCEPT !.calls[f] = [@ EXCEPT !.pc = "deps", !.rec = itemIds,
                        !.kids = LastFrames(S2, Len(dependencyColumnIds))]]

\* handleMirrorBatch up to `await fetchItemsMirrorDeep(...)`
handleMirrorBatchStart(S, f, itemIds) ==
  sendQuery([S EXCEPT !.calls[f].rec = itemIds], f, "mirrorbatch", "mirrorb")

\* resolveColumnValueBatch that returns the empty map when the column is
\* not found
batchGotColumnEmptyWhenMissing(S, kind_, f) ==
  LET fr == S.calls[f]
      found == fr.q # "err" /\ fr.board \in S.schemaCache
               /\ fr.col \in BoardColumnIds
      column == LookupColumn(fr.board, fr.col)
      shouldSkipDisplayValue ==
        \/ /\ column.type = "formula"
           /\ column.formula # <<>>
           /\ analyzeFormulaDependencies(extractColumnIds(column.formula)).allComplex
        \/ /\ column.type = "mirror"
           /\ analyzeMirrorTarget(column)
  IN IF ~found
       THEN batchSettle(S, f, "ok", {})
     ELSE IF shouldSkipDisplayValue /\ column.type = "formula"
       THEN handleFormulaBatchStart(S, kind_, f, fr.items)
     ELSE IF shouldSkipDisplayValue
       THEN handleMirrorBatchStart(S, f, fr.items)
     ELSE fetchDisplayValueBatch(S, f, 0)

\* resolveColumnValueBatch after `await schemaCache.getColumn(...)`
batchGotColumn(S, kind_, f) ==
  LET fr == S.calls[f]
      found == fr.q # "err" /\ fr.board \in S.schemaCache
               /\ fr.col \in BoardColumnIds
      column == LookupColumn(fr.board, fr.col)
      shouldSkipDisplayValue ==
        \/ /\ column.type = "formula"
           /\ column.formula # <<>>
           /\ analyzeFormulaDependencies(extractColumnIds(column.formula)).allComplex
        \/ /\ column.type = "mirror"
           /\ analyzeMirrorTarget(column)
  IN IF ~found
       THEN batchSettle(S, f, "ok", {<<fr.items[k], Empty>> : k \in 1..Len(fr.items)})
     ELSE IF shouldSkipDisplayValue /\ column.type = "formula"
       THEN handleFormulaBatchStart(S, kind_, f, fr.items)
     ELSE IF shouldSkipDisplayValue
       THEN handleMirrorBatchStart(S, f, fr.items)
     ELSE fetchDisplayValueBatch(S, f, 0)

\* processMirrorDisplayValue on a display_value without ','
processMirrorDisplayValue(dv, aggFunc) ==
  Numv(applyAggregationFunction(<<parseFloat(dv.s).n>>, aggFunc))

\* the items of itemIds whose display value is nullish, in order
NullishItems(c, itemIds) ==
  LET nullish(i) == isNullishDisplayValue(fetchDisplayValue(c, i))
  IN SelectSeq(itemIds, nullish)

\* the response to a chunk of fetchDisplayValueBatch: its next iteration
\* and, after the last, resolveColumnValueBatch from
\* `await fetchDisplayValueBatch(...)` on
batchGotDisplayValues(S, kind_, f) ==
  LET fr == S.calls[f]
      column == LookupColumn(fr.board, fr.col)
      nullish == NullishItems(fr.col, fr.items)
      isNullish(i) == \E k \in 1..Len(nullish) : nullish[k] = i
      typedValue(dv) ==
        IF column.type = "mirror" /\ dv.t = "str" /\ IsPureNumber(dv.s)
          THEN processMirrorDisplayValue(dv, aggFuncOf(column))
          ELSE typedDisplayValue(dv)
      typed == {<<fr.items[k], typedValue(fetchDisplayValue(fr.col, fr.items[k]))>> :
                  k \in {k \in 1..Len(fr.items) : ~isNullish(fr.items[k])}}
      defaults == {<<nullish[k], IF column.type = "numbers" THEN Zero ELSE Empty>> :
                     k \in 1..Len(nullish)}
      S1 == [S EXCEPT !.calls[f].partial = typed]
  IN IF fr.q = "err" THEN batchSettle(S, f, "err", {})
     ELSE IF fr.i + chunkSize < Len(fr.items)
       THEN fetchDisplayValueBatch(S, f, fr.i + chunkSize)
     ELSE IF column.type \notin {"formula", "mirror"}
       THEN batchSettle(S, f, "ok", typed \cup defaults)
     ELSE IF nullish = <<>> THEN batchSettle(S, f, "ok", typed)
     ELSE IF column.type = "formula" THEN handleFormulaBatchStart(S1, kind_, f, nullish)
     ELSE handleMirrorBatchStart(S1, f, nullish)

\* depValues.get(itemId) ?? 0, with the map of zeros when the nested batch threw
batchKidValue(S, k, item) ==
  LET kid == S.calls[k]
      pos == {n \in 1..Len(kid.items) : kid.items[n] = item}
  IN IF kid.outer = "ok" /\ pos # {} /\ kid.res # <<>>
       THEN kid.res[CHOOSE n \in pos : TRUE]
       ELSE Zero

\* handleFormulaBatch after `await Promise.all(...)` of the nested batches
handleFormulaBatchGotDependencies(S, kind_, f) ==
  LET fr == S.calls[f]
      formula == LookupColumn(fr.board, fr.col).formula
      deps == extractColumnIds(formula)
      columnValuesForItem(i) ==
        {<<deps[k], batchKidValue(S, fr.kids[k], i)>> : k \in 1..Len(deps)}
      evaluated == {<<fr.rec[k], evaluateFormulaToValue(formula, columnValuesForItem(fr.rec[k]))>> :
                      k \in 1..Len(fr.rec)}
  IN batchSettle(S, f, "ok", fr.partial \cup evaluated)

\* seq without its repeated elements, in order of first appearance
RECURSIVE Unique(_)
Unique(seq) ==
  IF seq = <<>> THEN <<>>
  ELSE LET front == Unique(SubSeq(seq, 1, Len(seq) - 1))
           last == seq[Len(seq)]
       IN IF \E k \in 1..Len(front) : front[k] = last THEN front
          ELSE Append(front, last)

\* handleMirrorBatch: the item has no usable display_value and goes to the
\* recursion queue
inRecursionQueue(column, c, i) ==
  LET dv == RemoteColumnValue(c, i).display_value
  IN /\ isNullishDisplayValue(dv) \/ dv = Zero
     /\ RemoteMirroredItems(c, i) # <<>>
     /\ column.tcol # NOCOL

\* the targets { boardId, itemId } of the queued items among itemIds
RECURSIVE recursionTargets(_, _, _)
recursionTargets(column, c, itemIds) ==
  IF itemIds = <<>> THEN <<>>
  ELSE (IF inRecursionQueue(column, c, Head(itemIds))
          THEN RemoteMirroredItems(c, Head(itemIds)) ELSE <<>>)
       \o recursionTargets(column, c, Tail(itemIds))

\* the nested resolveColumnValueBatch calls, one per target board
RECURSIVE startTargetBoards(_, _, _, _, _, _, _)
startTargetBoards(S, kind_, top, parent, boards, targetColumnId, targets) ==
  IF boards = <<>> THEN S
  ELSE LET onBoard(t) == t[1] = Head(boards)
           mine == SelectSeq(targets, onBoard)
           ids == Unique([k \in 1..Len(mine) |-> mine[k][2]])
       IN startTargetBoards(
            resolveColumnValueBatchSync(S, kind_, top, parent, Head(boards),
                                        targetColumnId, ids),
            kind_, top, parent, Tail(boards), targetColumnId, targets)

\* handleMirrorBatch after `await fetchItemsMirrorDeep(...)`
handleMirrorBatchGotData(S, kind_, f) ==
  LET fr == S.calls[f]
      column == LookupColumn(fr.board, fr.col)
      aggFunc == aggFuncOf(column)
      queued(i) == inRecursionQueue(column, fr.col, i)
      dvOf(i) == RemoteColumnValue(fr.col, i).display_value
      direct == {<<fr.rec[k],
                   IF isNullishDisplayValue(dvOf(fr.rec[k])) \/ dvOf(fr.rec[k]) = Zero
                     THEN mirrorDefault(aggFunc)
                     ELSE mirrorDisplayValue(dvOf(fr.rec[k]), aggFunc)>> :
                   k \in {k \in 1..Len(fr.rec) : ~queued(fr.rec[k])}}
      targets == recursionTargets(column, fr.col, fr.rec)
      boards == Unique([k \in 1..Len(targets) |-> targets[k][1]])
      S1 == [S EXCEPT !.calls[f].partial = @ \cup direct]
      S2 == startTargetBoards(S1, kind_, fr.top, f, boards, column.tcol, targets)
  IN IF fr.q = "err" THEN batchSettle(S, f, "err", {})
     ELSE IF targets = <<>> THEN batchSettle(S1, f, "ok", S1.calls[f].partial)
     ELSE [S2 EXCEPT !.calls[f] = [@ EXCEPT !.pc = "deps",
                                            !.kids = LastFrames(S2, Len(boards))]]

\* resolvedCache.get(itemId): the value a nested batch returned for the
\* item; nothing (Null) when that batch threw
resolvedValue(S, kids, item) ==
  LET has(k) == /\ S.calls[kids[k]].outer = "ok"
                /\ \E n \in 1..Len(S.calls[kids[k]].items) :
                     S.calls[kids[k]].items[n] = item
      from == {k \in 1..Len(kids) : has(k)}
  IN IF from = {} THEN Null
     ELSE LET kid == S.calls[kids[CHOOSE k \in from : \A j \in from : j <= k]]
          IN kid.res[CHOOSE n \in 1..Len(kid.items) : kid.items[n] = item]

\* handleMirrorBatch after `await Promise.all(...)` of the nested batches
handleMirrorBatchGotLinked(S, kind_, f) ==
  LET fr == S.calls[f]
      column == LookupColumn(fr.board, fr.col)
      aggFunc == aggFuncOf(column)
      valuesOf(i) == LET targets == RemoteMirroredItems(fr.col, i)
                     IN [k \in 1..Len(targets) |->
                           resolvedValue(S, fr.kids, targets[k][2])]
      aggregated == {<<fr.rec[k], aggregateMirror(valuesOf(fr.rec[k]), aggFunc)>> :
                       k \in {k \in 1..Len(fr.rec) :
                                inRecursionQueue(column, fr.col, fr.rec[k])}}
  IN batchSettle(S, f, "ok", fr.partial \cup aggregated)

-----------------------------------------------------------------------------
(* schema-cache.js: the coordinator's timer and the remote responses *)

\* executeCoordinatorBatch without coordinatorPending.delete(itemId): the
\* window stays open after its query is sent
executeCoordinatorBatchKeepsPending(S, itemId, by) ==
  LET pending == S.coordinatorPending[itemId]
      tops == {S.calls[r[2]].top : r \in pending.resolvers}
  IN Issue([S EXCEPT !.coordinatorQueries = @ \cup
                        {[item |-> itemId, columns |-> pending.columns,
                          resolvers |-> pending.resolvers, by |-> by]}],
           Query("multi", "", NOCOL, <<itemId>>, pending.columns, tops))

\* executeCoordinatorBatch up to `await fetchMultiColumnsDeep(...)`; by is
\* the frame of the flush that awaits it, 0 when the timer called it
executeCoordinatorBatch(S, itemId, by) ==
  LET pending == S.coordinatorPending[itemId]
      tops == {S.calls[r[2]].top : r \in pending.resolvers}
  IN Issue([S EXCEPT !.coordinatorPending = Drop(@, itemId),
                     !.coordinatorQueries = @ \cup
                        {[item |-> itemId, columns |-> pending.columns,
                          resolvers |-> pending.resolvers, by |-> by]}],
           Query("multi", "", NOCOL, <<itemId>>, pending.columns, tops))

\* the response of fetchMultiColumnsDeep: columnsData, a value per queried
\* column of the item; extractColumnValue(undefined) is ''
columnsData(cq, columnId) ==
  IF columnId \in cq.columns THEN extractColumnValue(columnId, cq.item) ELSE Empty

\* executeCoordinatorBatch resolving every resolver with the value of one
\* column of the response
coordinatorSettleOneValue(S, cq, ok) ==
  LET one == CHOOSE c \in cq.columns : TRUE
      Answer(fr, f) ==
        {IF <<r.col, f>> \in cq.resolvers /\ r.st = "wait"
           THEN [col |-> r.col, st |-> IF ok THEN "ok" ELSE "err",
                 val |-> IF ok THEN columnsData(cq, one) ELSE Null]
           ELSE r : r \in fr.creq}
  IN [S EXCEPT !.calls = [f \in 1..Len(S.calls) |->
                            IF f = cq.by
                              THEN [S.calls[f] EXCEPT !.env = @ \ {cq.item}]
                              ELSE [S.calls[f] EXCEPT !.creq = Answer(S.calls[f], f)]],
               !.coordinatorQueries = @ \ {cq},
               !.failures = IF ok THEN @ ELSE @ + 1]

\* an executeCoordinatorBatch that, after the fetch, settles no resolver
coordinatorSettleUnanswered(S, cq, ok) ==
  [S EXCEPT !.coordinatorQueries = @ \ {cq}]

\* executeCoordinatorBatch after the fetch: resolve or reject every
\* resolver; a flush that awaits this batch is told
coordinatorSettle(S, cq, ok) ==
  LET Answer(fr, f) ==
        {IF <<r.col, f>> \in cq.resolvers /\ r.st = "wait"
           THEN [col |-> r.col, st |-> IF ok THEN "ok" ELSE "err",
                 val |-> IF ok THEN columnsData(cq, r.col) ELSE Null]
           ELSE r : r \in fr.creq}
      cached == [k \in (DOMAIN S.coordinatorCache) \cup
                       {<<cq.item, r[1]>> : r \in cq.resolvers} |->
                   IF \E r \in cq.resolvers : k = <<cq.item, r[1]>>
                     THEN columnsData(cq, k[2])
                     ELSE S.coordinatorCache[k]]
  IN [S EXCEPT !.calls = [f \in 1..Len(S.calls) |->
                            IF f = cq.by
                              THEN [S.calls[f] EXCEPT !.env = @ \ {cq.item}]
                              ELSE [S.calls[f] EXCEPT !.creq = Answer(S.calls[f], f)]],
               !.coordinatorQueries = @ \ {cq},
               !.coordinatorCache = IF ok THEN cached ELSE @,
               !.failures = IF ok THEN @ ELSE @ + 1]

\* flushCoordinator up to `await Promise.all(...)`: the timers are cleared
\* and every pending batch is executed; the new frame is the flush
RECURSIVE executeAll(_, _, _)
executeAll(S, itemIds, by) ==
  IF itemIds = {} THEN S
  ELSE LET itemId == CHOOSE i \in itemIds : \A j \in itemIds : i <= j
       IN executeAll(executeCoordinatorBatch(S, itemId, by), itemIds \ {itemId}, by)

\* the coordinator requests that are not settled: <<columnId, frame>>
waitingRequests(S) ==
  UNION {{<<r.col, f>> : r \in {y \in S.calls[f].creq : y.st = "wait"}} :
           f \in 1..Len(S.calls)}

\* a flush that clears no timer and executes no batch
flushCoordinatorLeavesBatches(S) ==
  LET flushed == UNION {S.coordinatorPending[i].resolvers :
                          i \in DOMAIN S.coordinatorPending}
      fr == [NewFrame("flush", 0, 0, "", NOCOL, <<>>) EXCEPT
               !.pc = "flush", !.res = <<flushed>>, !.partial = waitingRequests(S)]
  IN [S EXCEPT !.calls = Append(@, fr)]

flushCoordinator(S) ==
  LET itemIds == DOMAIN S.coordinatorPending
      id == Len(S.calls) + 1
      flushed == UNION {S.coordinatorPending[i].resolvers : i \in itemIds}
      fr == [NewFrame("flush", 0, 0, "", NOCOL, <<>>) EXCEPT
               !.pc = "flush", !.env = itemIds, !.res = <<flushed>>,
               !.partial = waitingRequests(S)]
      cleared == [i \in itemIds |-> [S.coordinatorPending[i] EXCEPT !.timer = FALSE]]
  IN executeAll([S EXCEPT !.calls = Append(@, fr), !.coordinatorPending = cleared],
                itemIds, id)

\* flushCoordinator after `await Promise.all(...)`
flushReturn(S, f) ==
  [S EXCEPT !.calls[f] = [@ EXCEPT !.pc = "done", !.inner = "ok", !.outer = "ok"]]

\* invalidate() without a board: every cache and in-flight map is cleared,
\* the coordinator's timers are cleared and its pending entries dropped; the
\* new frame records the resolvers that were pending
invalidate(S) ==
  LET dropped == UNION {S.coordinatorPending[i].resolvers :
                          i \in DOMAIN S.coordinatorPending}
      fr == [NewFrame("invalidate", 0, 0, "", NOCOL, <<>>) EXCEPT
               !.pc = "done", !.inner = "ok", !.outer = "ok", !.res = <<dropped>>]
  IN [S EXCEPT !.calls = Append(@, fr),
               !.schemaCache = {},
               !.valueCache = EmptyMap,
               !.pendingSchemaRequests = {},
               !.pendingValueRequests = EmptyMap,
               !.coordinatorPending = EmptyMap,
               !.coordinatorCache = EmptyMap]

\* a caller of schemaCache.coordinatorRequest(itemId, columnId); the new
\* frame is the caller awaiting the returned promise
directRequest(S, itemId, columnId) ==
  LET id == Len(S.calls) + 1
      fr == [NewFrame("request", 0, 0, "b1", columnId, <<itemId>>) EXCEPT !.pc = "coord"]
  IN coordinatorRequest([S EXCEPT !.calls = Append(@, fr)], id, itemId, columnId)

\* the awaited coordinator promise has settled
requestReturn(S, f) ==
  LET r == CHOOSE r \in S.calls[f].creq : TRUE
  IN [S EXCEPT !.calls[f] = [@ EXCEPT !.pc = "done", !.inner = r.st, !.outer = r.st,
                                      !.res = IF r.st = "ok" THEN <<r.val>> ELSE <<>>]]

\* the fetchPromise of createSimpleCache.getColumn completes: on success
\* the columns are cached, an error is caught; every caller awaiting it
\* then continues
schemaSettle(S, b, ok) ==
  LET good == ok /\ b \in Boards
  IN [S EXCEPT !.schemaCache = IF good THEN @ \cup {b} ELSE @,
               !.pendingSchemaRequests = @ \ {b},
               !.failures = IF ok THEN @ ELSE @ + 1,
               !.calls = [f \in 1..Len(S.calls) |->
                            IF S.calls[f].pc = "getcol" /\ S.calls[f].q = "sent"
                               /\ S.calls[f].board = b
                              THEN [S.calls[f] EXCEPT !.q = IF good THEN "ok" ELSE "err"]
                              ELSE S.calls[f]]]

\* the query that frame f awaits completes; createSchemaCache.getColumn
\* caches the columns of its own fetch and catches its error
querySettle(S, f, ok) ==
  LET fr == S.calls[f]
      good == ok /\ (fr.pc # "getcol" \/ fr.board \in Boards)
  IN [S EXCEPT !.calls[f].q = IF good THEN "ok" ELSE "err",
               !.schemaCache = IF fr.pc = "getcol" /\ good THEN @ \cup {fr.board} ELSE @,
               !.failures = IF ok THEN @ ELSE @ + 1]

-----------------------------------------------------------------------------
(* tools/formula/blocks/formula-to-text/action.js executeAction: the       *)
(* response to the outcome of resolveValue, which resolves in a            *)
(* createSimpleCache session of its own.  notFoundMessage: the message of  *)
(* the error caught includes 'not found' or '404'.                         *)

executeAction(outer, res, notFoundMessage) ==
  IF outer = "ok"
    THEN [status |-> 200, severityCode |-> 0,
          formulaText |-> IF res[1] = Null THEN <<>> ELSE String(res[1])]
  ELSE IF notFoundMessage
    THEN [status |-> 404, severityCode |-> 6000, formulaText |-> <<>>]
  ELSE [status |-> 500, severityCode |-> 4000, formulaText |-> <<>>]

-----------------------------------------------------------------------------
(* The session: its callers, the frames' steps, the remote side *)

\* the keys a session is asked for; the single-item calls ask for TopItem,
\* the batch calls for BatchItems
RootKeys == {<<"b1", c>> : c \in {NUM, F_A, F_C, F_K, F_T, FORMULA_D, FORMULA_P,
                                  MIRROR_S, MIRROR_A, MIRROR_T, MIRROR_C,
                                  MIRROR_E, F_E, NOCOL}}
            \cup {<<UnknownBoard, NUM>>}
BatchItems == <<1, 2>>
TopItem == Head(BatchItems)

Init ==
  /\ cacheKind \in {"simple", "schema"}
  /\ root \in RootKeys
  /\ calls = <<>>
  /\ visited = <<>>
  /\ schemaCache = {}
  /\ pendingSchemaRequests = {}
  /\ valueCache = EmptyMap
  /\ pendingValueRequests = EmptyMap
  /\ coordinatorPending = EmptyMap
  /\ coordinatorCache = EmptyMap
  /\ coordinatorQueries = {}
  /\ issued = EmptyMap
  /\ windows = EmptyMap
  /\ microtasks = <<>>
  /\ failures = 0
  /\ hist = <<>>
  /\ tokenizerFormula = <<>>
  /\ tokenizerPos = 0
  /\ tokenizerTokens = <<>>
  /\ parserAst = NotParsed
  /\ formulaResult = Null

\* the top-level calls that have returned a value / have settled
Returned == {t \in 1..Len(hist) : calls[hist[t].frame].outer = "ok"}
Settled == {t \in 1..Len(hist) : calls[hist[t].frame].outer # "run"}

Frames == 1..Len(calls)
IsSingle(f) == calls[f].kind = "single"
TypeOf(f) == LookupColumn(calls[f].board, calls[f].col).type
KidsSettled(f) == \A k \in 1..Len(calls[f].kids) : calls[calls[f].kids[k]].outer # "run"

\* no continuation is queued: the event loop takes its next task
Quiescent == microtasks = <<>>

\* the callers of a session: the second call may overlap the first, a
\* later call starts when the earlier calls have settled
MayCall ==
  /\ Len(hist) < MaxTop
  /\ Quiescent
  /\ Len(hist) <= 1 \/ Settled = 1..Len(hist)

\* a caller starts a top-level call with a fresh visitedPaths set
TopCall(kind_) ==
  [S |-> [St EXCEPT !.visited = Append(@, {})],
   h |-> [frame |-> Len(calls) + 1, kind |-> kind_, pre |-> Returned]]

\* resolveColumnValue({ boardId, columnId, itemId, apiClient, schemaCache })
Resolve ==
  /\ MayCall
  /\ LET t == TopCall("single")
         S2 == resolveColumnValueSync(t.S, cacheKind, Len(hist) + 1, 0,
                                      root[1], root[2], TopItem)
     IN Commit([S2 EXCEPT !.hist = Append(@, t.h)])

\* resolveColumnValueBatch({ boardId, columnId, itemIds, apiClient, schemaCache })
ResolveBatch ==
  /\ MayCall
  /\ LET t == TopCall("batch")
         S2 == resolveColumnValueBatchSync(t.S, cacheKind, Len(hist) + 1, 0,
                                           root[1], root[2], BatchItems)
     IN Commit([S2 EXCEPT !.hist = Append(@, t.h)])


InternalGotColumn ==
  \E f \in Frames :
    /\ IsSingle(f) /\ calls[f].pc = "getcol" /\ calls[f].q # "sent"
    /\ Run(f, internalGotColumn(St, cacheKind, f))

InternalGotDisplayValue ==
  \E f \in Frames :
    /\ calls[f].pc = "dv" /\ calls[f].q # "sent"
    /\ Run(f, internalGotDisplayValue(St, cacheKind, f))

InternalGotNumericValue ==
  \E f \in Frames :
    /\ calls[f].pc = "numq" /\ calls[f].q # "sent"
    /\ Run(f, internalGotNumericValue(St, cacheKind, f))

HandleFormulaGotCoordinator ==
  \E f \in Frames :
    /\ IsSingle(f) /\ calls[f].pc = "coord" /\ \A r \in calls[f].creq : r.st # "wait"
    /\ Run(f, handleFormulaGotCoordinator(St, cacheKind, f))

HandleFormulaGotDependencies ==
  \E f \in Frames :
    /\ IsSingle(f) /\ calls[f].pc = "deps" /\ TypeOf(f) = "formula" /\ KidsSettled(f)
    /\ Run(f, handleFormulaGotDependencies(St, cacheKind, f))

HandleMirrorGotData ==
  \E f \in Frames :
    /\ calls[f].pc = "mirror" /\ calls[f].q # "sent"
    /\ Run(f, handleMirrorGotData(St, cacheKind, f))

HandleMirrorGotLinked ==
  \E f \in Frames :
    /\ IsSingle(f) /\ calls[f].pc = "deps" /\ TypeOf(f) = "mirror" /\ KidsSettled(f)
    /\ Run(f, handleMirrorGotLinked(St, cacheKind, f))

ResolveFinally ==
  \E f \in Frames :
    /\ calls[f].pc = "fin"
    /\ Run(f, resolveFinally(St, f))

FollowSettled ==
  \E f \in Frames :
    /\ calls[f].pc = "follow" /\ calls[calls[f].follow].inner # "run"
    /\ Run(f, followSettled(St, f))

BatchGotColumn ==
  \E f \in Frames :
    /\ ~IsSingle(f) /\ calls[f].pc = "getcol" /\ calls[f].q # "sent"
    /\ Run(f, batchGotColumn(St, cacheKind, f))

BatchGotDisplayValues ==
  \E f \in Frames :
    /\ calls[f].pc = "dvb" /\ calls[f].q # "sent"
    /\ Run(f, batchGotDisplayValues(St, cacheKind, f))

HandleFormulaBatchGotDependencies ==
  \E f \in Frames :
    /\ ~IsSingle(f) /\ calls[f].pc = "deps" /\ TypeOf(f) = "formula" /\ KidsSettled(f)
    /\ Run(f, handleFormulaBatchGotDependencies(St, cacheKind, f))

HandleMirrorBatchGotData ==
  \E f \in Frames :
    /\ calls[f].pc = "mirrorb" /\ calls[f].q # "sent"
    /\ Run(f, handleMirrorBatchGotData(St, cacheKind, f))

HandleMirrorBatchGotLinked ==
  \E f \in Frames :
    /\ ~IsSingle(f) /\ calls[f].pc = "deps" /\ TypeOf(f) = "mirror" /\ KidsSettled(f)
    /\ Run(f, handleMirrorBatchGotLinked(St, cacheKind, f))

\* the timer set by coordinatorRequest fires
ExecuteCoordinatorBatch ==
  \E itemId \in DOMAIN coordinatorPending :
    /\ coordinatorPending[itemId].timer
    /\ Quiescent
    /\ Commit(executeCoordinatorBatch(St, itemId, 0))

\* a remote query may fail while the failure budget lasts
Outcomes == {TRUE} \cup (IF failures < MaxFail THEN {FALSE} ELSE {})

CoordinatorRespond ==
  \E cq \in coordinatorQueries : \E ok \in Outcomes :
    /\ Quiescent
    /\ Commit(coordinatorSettle(St, cq, ok))

SchemaRespond ==
  \E b \in pendingSchemaRequests : \E ok \in Outcomes :
    /\ Quiescent
    /\ Commit(schemaSettle(St, b, ok))

QueryRespond ==
  \E f \in Frames : \E ok \in Outcomes :
    /\ Quiescent
    /\ calls[f].q = "sent"
    /\ calls[f].pc = "getcol" => cacheKind = "schema"
    /\ Commit(querySettle(St, f, ok))

Next ==
  \/ Resolve
  \/ ResolveBatch
  \/ InternalGotColumn
  \/ InternalGotDisplayValue
  \/ InternalGotNumericValue
  \/ HandleFormulaGotCoordinator
  \/ HandleFormulaGotDependencies
  \/ HandleMirrorGotData
  \/ HandleMirrorGotLinked
  \/ ResolveFinally
  \/ FollowSettled
  \/ BatchGotColumn
  \/ BatchGotDisplayValues
  \/ HandleFormulaBatchGotDependencies
  \/ HandleMirrorBatchGotData
  \/ HandleMirrorBatchGotLinked
  \/ ExecuteCoordinatorBatch
  \/ CoordinatorRespond
  \/ SchemaRespond
  \/ QueryRespond

Spec == Init /\ [][Next]_vars

-----------------------------------------------------------------------------
(* The coordinator under its own callers.  Besides the resolves of a       *)
(* session, callers request single (item, column) values from the          *)
(* coordinator, flush it and invalidate the session.  The timer of a       *)
(* batch window, whatever its length, fires as a later task of the event   *)
(* loop, at any point after the window opened.  request-coordinator.js     *)
(* (request, executeBatch, flush, clear) is the same code with the timers  *)
(* kept in a map of their own.                                             *)

\* the formulas whose dependencies go through the coordinator
CoordRoots == {<<"b1", F_T>>, <<"b1", F_C>>}
RequestItems == {BatchItems[k] : k \in 1..Len(BatchItems)}
RequestColumns == {NUM, TXT}

FramesOf(kind_) == {f \in Frames : calls[f].kind = kind_}

\* the callers of the session so far
Callers ==
  Len(hist) + Cardinality(FramesOf("request")) + Cardinality(FramesOf("flush"))
            + Cardinality(FramesOf("invalidate"))
MayEnter == Quiescent /\ Callers < MaxCallers

CoordInit == Init /\ cacheKind = "simple" /\ root \in CoordRoots

CoordResolve == MayEnter /\ Resolve

\* coordinatorRequest(itemId, columnId)
CoordinatorRequest ==
  \E itemId \in RequestItems : \E columnId \in RequestColumns :
    /\ MayEnter
    /\ Cardinality(FramesOf("request")) < MaxRequests
    /\ Commit(directRequest(St, itemId, columnId))

RequestReturn ==
  \E f \in FramesOf("request") :
    /\ calls[f].pc = "coord" /\ \A r \in calls[f].creq : r.st # "wait"
    /\ Run(f, requestReturn(St, f))

\* flushCoordinator()
FlushCoordinator ==
  /\ MayEnter
  /\ Cardinality(FramesOf("flush")) < MaxFlush
  /\ Commit(flushCoordinator(St))

FlushReturn ==
  \E f \in FramesOf("flush") :
    /\ calls[f].pc = "flush" /\ calls[f].env = {}
    /\ Run(f, flushReturn(St, f))

\* invalidate(), called while no schema fetch is in flight
Invalidate ==
  /\ MayEnter
  /\ Cardinality(FramesOf("invalidate")) < MaxInvalidate
  /\ pendingSchemaRequests = {}
  /\ Commit(invalidate(St))

CoordNext ==
  \/ CoordResolve
  \/ InternalGotColumn
  \/ InternalGotDisplayValue
  \/ InternalGotNumericValue
  \/ HandleFormulaGotCoordinator
  \/ HandleFormulaGotDependencies
  \/ ResolveFinally
  \/ FollowSettled
  \/ ExecuteCoordinatorBatch
  \/ CoordinatorRespond
  \/ SchemaRespond
  \/ QueryRespond
  \/ CoordinatorRequest
  \/ RequestReturn
  \/ FlushCoordinator
  \/ FlushReturn
  \/ Invalidate

CoordSpec == CoordInit /\ [][CoordNext]_vars

-----------------------------------------------------------------------------
(* The formula engine alone: evaluateFormula(formula, columnValues) on a   *)
(* formula text, as the steps of its synchronous run: the iterations of    *)
(* tokenize's loop, Parser.parse, then evaluate and formatResult.          *)

\* scalar literals: their text in a formula and the value they denote
Scalars ==
  {[text |-> NatToStr(n), value |-> Numv(n)] : n \in 0..MaxScalar}
    \cup {[text |-> <<"-", "1">>, value |-> Numv(0 - 1)],
          [text |-> <<"\"", "x", "\"">>, value |-> Strv(<<"x">>)]}

TrueCall == <<"T", "R", "U", "E", "(", ")">>
FalseCall == <<"F", "A", "L", "S", "E", "(", ")">>
Conditions == {TrueCall, FalseCall, <<"T", "R", "U", "E">>, <<"f", "a", "l", "s", "e">>}

IfFormula(condition, a, b) ==
  <<"I", "F", "(">> \o condition \o <<",">> \o a \o <<",", " ">> \o b \o <<")">>

\* texts that end with an operand, by the kind of their last token
Operands ==
  {[text |-> <<"5">>, last |-> "NUMBER"],
   [text |-> <<"'", "a", "'">>, last |-> "STRING"],
   [text |-> <<"T", "R", "U", "E">>, last |-> "BOOLEAN"],
   [text |-> <<"{", "c", "}">>, last |-> "COLUMN_REF"],
   [text |-> <<"(", "5", ")">>, last |-> "RPAREN"]}

\* texts that do not end with an operand
Prefixes == {<<>>, <<"(">>, <<"5", "+">>, <<"5", " ", "*", " ">>, <<"5", "?">>}

MinusFormula(left, digits) == left \o <<"-">> \o digits

\* n times the character ch
Repeat(ch, n) == [k \in 1..n |-> ch]

\* an expression between i opening and j closing parentheses
ParenCores == {<<"5">>, <<"I", "F", "(", "1", ",", "2">>, <<"5", " ", "(">>}
ParenFormula(i, core, j) == Repeat("(", i) \o core \o Repeat(")", j)

\* divisions: the two operators and the two functions
Divisors == {<<"0">>, <<"2">>}
OperatorFormula(a, operator, b) == a \o operator \o b
CallFormula(name, a, b) == name \o <<"(">> \o a \o <<",", " ">> \o b \o <<")">>
DivisionFormulas ==
  {OperatorFormula(a.text, op, b) : a \in Scalars, op \in {<<"/">>, <<" ", "%", " ">>},
                                    b \in Divisors}
    \cup {CallFormula(f, a.text, b) : f \in {<<"D", "I", "V", "I", "D", "E">>, <<"m", "o", "d">>},
                                     a \in Scalars, b \in Divisors}

EngineFormulas ==
  {IfFormula(c, a.text, b.text) : c \in Conditions, a \in Scalars, b \in Scalars}
    \cup {MinusFormula(l.text, NatToStr(n)) : l \in Operands, n \in 0..MaxScalar}
    \cup {MinusFormula(l, NatToStr(n)) : l \in Prefixes, n \in 0..MaxScalar}
    \cup {ParenFormula(i, core, j) : i \in 0..MaxParens, core \in ParenCores,
                                     j \in 0..MaxParens}
    \cup DivisionFormulas
    \cup {<<>>, <<" ">>}

\* the column values handed to evaluateFormula
EngineColumnValues == {<< <<"c">>, Numv(7) >>}

TokensComplete ==
  tokenizerTokens # <<>> /\ tokenizerTokens[Len(tokenizerTokens)].type = "EOF"

EngineInit ==
  /\ cacheKind = "simple"
  /\ root = <<"b1", NUM>>
  /\ calls = <<>>
  /\ visited = <<>>
  /\ schemaCache = {}
  /\ pendingSchemaRequests = {}
  /\ valueCache = EmptyMap
  /\ pendingValueRequests = EmptyMap
  /\ coordinatorPending = EmptyMap
  /\ coordinatorCache = EmptyMap
  /\ coordinatorQueries = {}
  /\ issued = EmptyMap
  /\ windows = EmptyMap
  /\ microtasks = <<>>
  /\ failures = 0
  /\ hist = <<>>
  /\ tokenizerFormula \in EngineFormulas
  /\ tokenizerPos = 0
  /\ tokenizerTokens = <<>>
  /\ parserAst = NotParsed
  /\ formulaResult = Null

\* evaluateFormula: if (!formula) return ''
EvaluateEmpty ==
  /\ tokenizerFormula = <<>>
  /\ formulaResult = Null
  /\ formulaResult' = Empty
  /\ UNCHANGED <<sessionVars, tokenizerFormula, tokenizerPos, tokenizerTokens, parserAst>>

\* one iteration of the loop of tokenize
NextToken ==
  /\ tokenizerFormula # <<>>
  /\ ~TokensComplete
  /\ LET read == nextToken(tokenizerFormula, tokenizerPos)
     IN /\ tokenizerPos' = read.pos
        /\ tokenizerTokens' = IF read.token = NullToken THEN tokenizerTokens
                              ELSE Append(tokenizerTokens, read.token)
  /\ UNCHANGED <<sessionVars, tokenizerFormula, parserAst, formulaResult>>

\* parse(formula), after tokenize: new Parser(tokens).parse()
Parse ==
  /\ TokensComplete
  /\ parserAst = NotParsed
  /\ parserAst' = parse(tokenizerTokens)
  /\ UNCHANGED <<sessionVars, tokenizerFormula, tokenizerPos, tokenizerTokens, formulaResult>>

\* evaluateFormula after parse: format(evalAST(ast, columnValues)), '' when
\* parse threw
Evaluate ==
  /\ parserAst # NotParsed
  /\ formulaResult = Null
  /\ formulaResult' =
       IF parserAst.err # "" THEN Empty
       ELSE Strv(formatResult(evaluateNode(parserAst.node, EngineColumnValues)))
  /\ UNCHANGED <<sessionVars, tokenizerFormula, tokenizerPos, tokenizerTokens, parserAst>>

EngineNext ==
  \/ EvaluateEmpty
  \/ NextToken
  \/ Parse
  \/ Evaluate

EngineSpec == EngineInit /\ [][EngineNext]_vars

-----------------------------------------------------------------------------
(* Properties of the resolver, by claim *)

\* the top-level calls of each kind
SingleTops == {t \in 1..Len(hist) : hist[t].kind = "single"}
BatchTops == {t \in 1..Len(hist) : hist[t].kind = "batch"}
TopFrame(t) == calls[hist[t].frame]

\* the roots whose references form a cycle
CyclicRoots == {<<"b1", F_A>>, <<"b1", MIRROR_S>>}

\* the event loop has work left: a continuation, a timer or the response
\* to a remote query; without it no frame of the session moves again
WorkLeft ==
  \/ microtasks # <<>>
  \/ pendingSchemaRequests # {}
  \/ coordinatorQueries # {}
  \/ \E i \in DOMAIN coordinatorPending : coordinatorPending[i].timer
  \/ \E f \in Frames : calls[f].q = "sent" /\ calls[f].pc # "getcol"
  \/ \E f \in Frames : calls[f].q = "sent" /\ cacheKind = "schema"

\* C1: a top-level resolve against createSimpleCache on a column of a
\* reference cycle eventually returns: as long as it has not settled, the
\* session has a continuation, a timer or a remote response left to run.
C1_CycleResolveReturns ==
  \A t \in SingleTops :
    (cacheKind = "simple" /\ root \in CyclicRoots /\ t \notin Settled) => WorkLeft

\* the key a frame resolves
FrameKey(f) == Key(calls[f].board, calls[f].col, calls[f].items[1])

\* the resolutions of a key: the calls that run resolveColumnValueInternal
Resolutions(key) ==
  {f \in Frames : IsSingle(f) /\ calls[f].how = "new" /\ FrameKey(f) = key}

\* the calls that subscribed to an in-flight resolution
Subscribers == {f \in Frames : calls[f].how = "pending"}

\* C2: while a resolve of a key is in flight in a session, every other
\* resolve of the key subscribes to it: at most one resolution of the key
\* is running, a subscriber starts no query and no nested call of its own,
\* and it settles with the outcome of the resolution it subscribed to.
C2_InFlightShared ==
  cacheKind = "simple" =>
    /\ \A f, g \in Frames :
         (f # g /\ IsSingle(f) /\ g \in Resolutions(FrameKey(f)) /\ calls[f].how = "new")
           => (calls[f].pc = "done" \/ calls[g].pc = "done")
    /\ \A g \in Subscribers :
         LET owner == calls[g].follow
         IN /\ owner \in Resolutions(FrameKey(g))
            /\ calls[g].q = "none" /\ calls[g].kids = <<>> /\ calls[g].creq = {}
            /\ calls[g].pc = "done" =>
                 (calls[g].outer = calls[owner].inner /\ calls[g].res = calls[owner].res)

\* a second top-level resolve arrived while the first was in flight and has
\* returned the value of the first
C2_Witness ==
  /\ cacheKind = "simple"
  /\ \E g \in Subscribers :
       /\ calls[g].parent = 0 /\ calls[g].pc = "done" /\ calls[g].outer = "ok"
       /\ calls[g].res = calls[calls[g].follow].res

\* C3: once a key has been resolved in a session, a further resolve of the
\* key returns the identical scalar and issues no further remote call.
C3_ResolvedKeyStable ==
  (cacheKind = "simple" /\ failures = 0) =>
    \A t, u \in SingleTops :
      t \in hist[u].pre =>
        /\ \A q \in DOMAIN issued : u \notin q.by
        /\ u \in Settled =>
             (TopFrame(u).outer = "ok" /\ TopFrame(u).res = TopFrame(t).res)

\* how often the queries of Q were issued
RECURSIVE TimesIssued(_)
TimesIssued(Q) ==
  IF Q = {} THEN 0
  ELSE LET q == CHOOSE q \in Q : TRUE IN issued[q] + TimesIssued(Q \ {q})

\* the multi-column queries issued for an item
MultiQueries(itemId) ==
  TimesIssued({q \in DOMAIN issued : q.kind = "multi" /\ q.items = <<itemId>>})

\* the places that hold the coordinator request of frame f for column c:
\* the open window of the item, or a multi-column query in flight
Carriers(f, c) ==
  LET itemId == calls[f].items[1]
      inWindow == /\ itemId \in DOMAIN coordinatorPending
                  /\ c \in coordinatorPending[itemId].columns
                  /\ <<c, f>> \in coordinatorPending[itemId].resolvers
      inFlight == {cq \in coordinatorQueries :
                     cq.item = itemId /\ c \in cq.columns /\ <<c, f>> \in cq.resolvers}
  IN Cardinality(inFlight) + (IF inWindow THEN 1 ELSE 0)

\* C4: for every item and every set of columns requested from the
\* coordinator within one batch window, the coordinator issues exactly one
\* multi-column query, and that query covers the item and all the columns:
\* as many queries were issued as windows have closed, and every request
\* not yet answered is carried by its open window or by exactly one query.
C4_OneQueryPerWindow ==
  /\ \A itemId \in DOMAIN windows :
       MultiQueries(itemId) + (IF itemId \in DOMAIN coordinatorPending THEN 1 ELSE 0)
         = windows[itemId]
  /\ \A f \in Frames : \A r \in calls[f].creq :
       r.st = "wait" => Carriers(f, r.col) = 1
  /\ \A cq \in coordinatorQueries :
       /\ cq.columns = {r[1] : r \in cq.resolvers}
       /\ \E q \in DOMAIN issued :
            q.kind = "multi" /\ q.items = <<cq.item>> /\ q.cols = cq.columns

\* the two columns that f_c requested in one window travel in one query
C4_Witness ==
  /\ MultiQueries(TopItem) = 1
  /\ \E cq \in coordinatorQueries : cq.item = TopItem /\ cq.columns = {NUM, N2}

\* the schema queries issued for a board
SchemaQueries(b) ==
  TimesIssued({q \in DOMAIN issued : q.kind = "schema" /\ q.board = b})

AllBoards == Boards \cup {UnknownBoard}

\* C5: in a session at most one schema fetch per board is in flight: a
\* lookup that arrives while the fetch is in flight awaits it and issues
\* none, and once a fetch has succeeded no lookup issues a schema query.
C5_SchemaFetchShared ==
  [][cacheKind = "simple" =>
       \A b \in AllBoards :
         (b \in schemaCache \/ b \in pendingSchemaRequests)
           => SchemaQueries(b)' = SchemaQueries(b)]_vars

\* a second lookup arrived while the fetch was in flight and awaits it
C5_Witness ==
  /\ cacheKind = "simple"
  /\ \E f, g \in Frames :
       /\ f # g /\ calls[f].board = calls[g].board
       /\ calls[f].pc = "getcol" /\ calls[f].q = "sent"
       /\ calls[g].pc = "getcol" /\ calls[g].q = "sent"
       /\ SchemaQueries(calls[f].board) = 1

\* C5 as stated: the schema of a board is fetched by a single remote query
C5_SingleSchemaQuery ==
  cacheKind = "simple" => \A b \in AllBoards : SchemaQueries(b) <= 1

\* the visitedPaths entry of a frame
PathKey(f) ==
  Key(calls[f].board, calls[f].col, IF IsSingle(f) THEN calls[f].items[1] ELSE 0)

\* key is the path key of frame p or of one of the calls p is nested in
RECURSIVE OnCallStack(_, _)
OnCallStack(p, key) ==
  p # 0 /\ (PathKey(p) = key \/ OnCallStack(calls[p].parent, key))

\* the calls that were answered with the cycle-break value
CycleBreaks == {f \in Frames : calls[f].how = "cycle"}

\* C6: cycle detection is per call stack: a call is answered with the
\* cycle-break value only when its key is the key of a call it is nested
\* in; a sibling branch reaching the same column gets the real value.
C6_CyclePerCallStack ==
  \A f \in CycleBreaks : OnCallStack(calls[f].parent, PathKey(f))

\* the column of frame p aggregates numbers: a formula, or a mirror whose
\* function is sum, avg or count
NumericContext(p) ==
  LET column == LookupColumn(calls[p].board, calls[p].col)
  IN \/ column.type = "formula"
     \/ column.type = "mirror" /\ aggFuncOf(column) \in {"sum", "avg", "count"}

\* C7: a call that re-enters a key of its own call stack returns 0 when the
\* requesting parent is a numeric-aggregation context and '' otherwise.
C7_CycleBreakByContext ==
  \A f \in CycleBreaks :
    OnCallStack(calls[f].parent, PathKey(f)) =>
      \A k \in 1..Len(calls[f].res) :
        calls[f].res[k] = IF NumericContext(calls[f].parent) THEN Zero ELSE Empty

\* C8: with f_a = "{f_b} + 1" and f_b = "{f_a} + 1" a resolve of f_a that
\* returns, every remote query answered, returns 2: the re-entry of f_a
\* under f_b yields the cycle-break 0, f_b is 1 and f_a is 2.
C8_CycleReturnsTwo ==
  \A t \in SingleTops :
    (root = <<"b1", F_A>> /\ failures = 0 /\ t \in Returned)
      => TopFrame(t).res = <<Numv(2)>>

\* a resolve of f_a has returned 2
C8_Witness ==
  /\ root = <<"b1", F_A>> /\ failures = 0
  /\ \E t \in SingleTops : t \in Returned /\ TopFrame(t).res = <<Numv(2)>>

\* C8 as stated: resolve(board, f_a, item) returns 1
C8_CycleReturnsOne ==
  \A t \in SingleTops :
    (root = <<"b1", F_A>> /\ failures = 0 /\ t \in Returned)
      => TopFrame(t).res = <<Numv(1)>>

\* C9: the scalar resolve_batch returns for an item equals the scalar
\* resolve returns for the same (board, column, item) against the same
\* remote state.
C9_BatchEqualsSingle ==
  \A t \in SingleTops : \A u \in BatchTops :
    (failures = 0 /\ t \in Returned /\ u \in Returned)
      => \A k \in 1..Len(BatchItems) :
           BatchItems[k] = TopItem => TopFrame(u).res[k] = TopFrame(t).res[1]

\* C10: when a remote query issued for the top-level column of a resolve
\* (schema, display value, deep mirror) fails, the resolve rejects.
C10_TopLevelFailureRejects ==
  \A t \in SingleTops :
    LET fr == TopFrame(t)
    IN (fr.how = "new" /\ fr.board \in Boards /\ fr.q = "err" /\ fr.pc = "done")
         => fr.outer = "err"

\* the scalar a failed dependency contributes to parent p
Fallback(p) == IF NumericContext(p) THEN Zero ELSE Empty

\* the dependencies of p whose resolve was rejected
FailedKids(p) ==
  {k \in 1..Len(calls[p].kids) : calls[calls[p].kids[k]].outer = "err"}

\* the value of parent p computed with every failed dependency at its
\* fallback scalar
WithFallback(p) ==
  LET fr == calls[p]
      column == LookupColumn(fr.board, fr.col)
      contribution(k) == IF k \in FailedKids(p) THEN Fallback(p)
                         ELSE calls[fr.kids[k]].res[1]
  IN IF column.type = "formula"
       THEN evaluateFormulaToValue(column.formula,
              fr.env \cup {<<fr.rec[k], contribution(k)>> : k \in 1..Len(fr.rec)})
       ELSE aggregateMirror([k \in 1..Len(fr.kids) |-> contribution(k)],
                            aggFuncOf(column))

\* C11: within one resolve, when resolving a dependency fails (a column a
\* formula references, a linked item's target column under a mirror), the
\* parent still returns a scalar, computed with that dependency at its
\* fallback: 0 under numeric aggregation, empty for text-like.
C11_DependencyFallback ==
  \A p \in Frames :
    (IsSingle(p) /\ calls[p].how = "new" /\ calls[p].pc \in {"fin", "done"}
       /\ FailedKids(p) # {})
      => (calls[p].inner = "ok" /\ calls[p].res = <<WithFallback(p)>>)

\* the keys whose column is not on the board, or whose board is unknown
MissingRoots == {<<"b1", NOCOL>>, <<UnknownBoard, NUM>>}

\* C12: a resolve on a column id that is not in the board's schema, or on
\* a board unknown to the platform, returns '' and does not raise.
C12_MissingReturnsEmpty ==
  \A t \in SingleTops :
    (root \in MissingRoots /\ t \in Settled)
      => (TopFrame(t).outer = "ok" /\ TopFrame(t).res = <<Empty>>)

\* a resolve that looked the missing column up has returned ''
C12_Witness ==
  /\ root \in MissingRoots
  /\ \E t \in SingleTops :
       /\ t \in Returned /\ TopFrame(t).how = "new"
       /\ TopFrame(t).res = <<Empty>>

-----------------------------------------------------------------------------
(* The scalar of a key, as resolveColumnValueInternal, handleFormula and   *)
(* handleMirror compute it when no query fails, as a function of the       *)
(* platform's data.  stack is the set of keys being resolved above the     *)
(* call.  With strategy, the display-value probe of a formula is skipped   *)
(* and the dependencies are taken from the coordinator as the code of      *)
(* createSimpleCache sessions does; without it every column is probed and  *)
(* every dependency is resolved by a nested call.                          *)

RECURSIVE resolvedScalar(_, _, _, _, _)
resolvedScalar(b, c, i, stack, strategy) ==
  LET key == Key(b, c, i)
      column == LookupColumn(b, c)
      displayValue == fetchDisplayValue(c, i)
      dependencyColumnIds == extractColumnIds(column.formula)
      depAnalysis == analyzeFormulaDependencies(dependencyColumnIds)
      shouldSkipDisplayValue ==
        strategy /\ column.formula # <<>> /\ depAnalysis.allComplex
      useCoordinator == /\ strategy
                        /\ Len(dependencyColumnIds) > 1
                        /\ depAnalysis.simpleCount > 0
      fromCoordinator(d) ==
        LET value == extractColumnValue(d, i)
        IN /\ useCoordinator
           /\ ~isNullishDisplayValue(value)
           /\ (~isComplexColumnId(d) \/ isNumericValue(value))
      dependencyValue(d) ==
        IF fromCoordinator(d) THEN parseDisplayValue(extractColumnValue(d, i))
        ELSE resolvedScalar(b, d, i, stack \cup {key}, strategy)
      columnValues == {<<dependencyColumnIds[k], dependencyValue(dependencyColumnIds[k])>> :
                         k \in 1..Len(dependencyColumnIds)}
      formulaValue == IF column.formula = <<>> THEN Zero
                      ELSE evaluateFormulaToValue(column.formula, columnValues)
      aggFunc == aggFuncOf(column)
      mirrorDisplay == RemoteColumnValue(c, i).display_value
      mirroredItems == RemoteMirroredItems(c, i)
      mirrorValue ==
        IF ~isNullishDisplayValue(mirrorDisplay)
          THEN mirrorDisplayValue(mirrorDisplay, aggFunc)
        ELSE IF mirroredItems = <<>> \/ column.tcol = NOCOL THEN mirrorDefault(aggFunc)
        ELSE aggregateMirror(
               [k \in 1..Len(mirroredItems) |->
                  resolvedScalar(mirroredItems[k][1], column.tcol, mirroredItems[k][2],
                                 stack \cup {key}, strategy)],
               aggFunc)
  IN IF key \in stack THEN Zero
     ELSE IF b \notin Boards \/ c \notin BoardColumnIds THEN Empty
     ELSE IF column.type = "mirror" THEN mirrorValue
     ELSE IF column.type = "formula" /\ shouldSkipDisplayValue THEN formulaValue
     ELSE IF ~isNullishDisplayValue(displayValue) THEN typedDisplayValue(displayValue)
     ELSE IF column.type = "formula" THEN formulaValue
     ELSE IF column.type = "numbers" THEN fetchNumericValue(c, i)
     ELSE Empty

\* the coordinator requests that were resolved, with their frame
ResolvedRequests == {<<f, r>> \in Frames \X UNION {calls[g].creq : g \in Frames} :
                       r \in calls[f].creq /\ r.st = "ok"}

\* C13: the batch window only decides how many multi-column queries are
\* issued.  Whenever the timers fire between the coordinator requests of
\* resolves and of direct callers, a request that is resolved is resolved
\* with the value the platform holds for its own (item, column), and a
\* resolve that returns without a failed query returns the scalar that is
\* a function of the platform's data alone.
C13_WindowKeepsValues ==
  /\ \A p \in ResolvedRequests :
       p[2].val = extractColumnValue(p[2].col, calls[p[1]].items[1])
  /\ \A t \in Returned :
       failures = 0 => TopFrame(t).res = <<resolvedScalar(root[1], root[2], TopItem, {}, TRUE)>>

\* a resolve returned its value after the columns of its item went out in
\* two windows, one of them carrying two columns
C13_Witness ==
  /\ failures = 0
  /\ Returned # {}
  /\ MultiQueries(TopItem) >= 2
  /\ \E q \in DOMAIN issued : q.kind = "multi" /\ Cardinality(q.cols) = 2
  /\ \E f \in Frames : Cardinality({r \in calls[f].creq : r.st = "ok"}) = 2

\* the flushes that have completed
Flushed == {f \in FramesOf("flush") : calls[f].pc = "done"}

\* the coordinator request <<columnId, frame>> has been resolved or rejected
RequestSettled(p) == \A r \in calls[p[2]].creq : r.col = p[1] => r.st # "wait"

\* the windows opened for an item, and those still open
WindowsOpened(itemId) == IF itemId \in DOMAIN windows THEN windows[itemId] ELSE 0
WindowsOpen(itemId) == IF itemId \in DOMAIN coordinatorPending THEN 1 ELSE 0

\* a step in which a caller flushes the coordinator
FlushStep == Cardinality(FramesOf("flush"))' > Cardinality(FramesOf("flush"))

\* C14: flush() issues, within the call, the multi-column query of every
\* batch pending at the call and leaves no batch pending; when it
\* completes, every request of those batches has been settled; and all the
\* time an item has had at most one query per window opened for it that is
\* no longer open, so that no timer issues a second query for a flushed
\* batch.
C14_FlushForcesPending ==
  [][/\ FlushStep =>
          /\ coordinatorPending' = EmptyMap
          /\ \A i \in DOMAIN coordinatorPending :
               MultiQueries(i)' = MultiQueries(i) + 1
     /\ \A f \in Flushed' : \A p \in calls'[f].res[1] : RequestSettled(p)'
     /\ \A i \in RequestItems :
          MultiQueries(i)' <= WindowsOpened(i)' - WindowsOpen(i)']_vars

\* a flush of two pending batches has completed and their requests were
\* resolved
C14_Witness ==
  \E f \in Flushed :
    /\ Cardinality({calls[p[2]].items[1] : p \in calls[f].res[1]}) = 2
    /\ \A p \in calls[f].res[1] :
         \E r \in calls[p[2]].creq : r.col = p[1] /\ r.st = "ok"

\* C14 as stated: when flush() completes, every request registered before
\* it has been settled
C14_FlushSettlesEarlier ==
  \A f \in Flushed : \A p \in calls[f].partial : RequestSettled(p)

\* the coordinator request <<columnId, frame>> has been rejected
RequestRejected(p) == \E r \in calls[p[2]].creq : r.col = p[1] /\ r.st = "err"

\* C15: when the session is invalidated while coordinator requests are
\* pending, every pending subscriber is rejected: the requests that were
\* pending at an invalidate() are rejected once it has returned.
C15_TeardownRejectsPending ==
  \A f \in FramesOf("invalidate") : \A p \in calls[f].res[1] : RequestRejected(p)

\* C16: strategy selection never changes a resolved value: a resolve that
\* returns without a failed query returns the scalar obtained when every
\* column is probed and every dependency is resolved by a nested call.
C16_StrategyKeepsValue ==
  \A t \in SingleTops :
    (failures = 0 /\ t \in Returned)
      => TopFrame(t).res = <<resolvedScalar(root[1], root[2], TopItem, {}, FALSE)>>

\* the remote queries issued on behalf of top-level call t
QueriesBy(t) == TimesIssued({q \in DOMAIN issued : t \in q.by})

\* the column asked for is a formula without column references
RootWithoutReferences ==
  /\ LookupColumn(root[1], root[2]).type = "formula"
  /\ LookupColumn(root[1], root[2]).formula # <<>>
  /\ extractColumnIds(LookupColumn(root[1], root[2]).formula) = <<>>

\* C17: a resolve of a formula column without column references issues at
\* most one remote query, and none when the board's schema is cached: an
\* earlier resolve of the session had returned when it was called.
C17_NoReferenceOneCall ==
  \A t \in SingleTops :
    RootWithoutReferences
      => /\ QueriesBy(t) <= 1
         /\ (failures = 0 /\ hist[t].pre # {}) => QueriesBy(t) = 0

\* the declared kind of column c of board b is formula, mirror or lookup
ComplexKind(b, c) == LookupColumn(b, c).type \in {"formula", "mirror", "lookup"}

\* the columns the formula of frame f refers to
DependenciesOf(f) == extractColumnIds(LookupColumn(calls[f].board, calls[f].col).formula)

\* frame f resolves a formula all of whose dependencies are of complex kind
AllComplexKind(f) ==
  /\ IsSingle(f) /\ TypeOf(f) = "formula"
  /\ DependenciesOf(f) # <<>>
  /\ \A k \in 1..Len(DependenciesOf(f)) : ComplexKind(calls[f].board, DependenciesOf(f)[k])

\* C18: a resolve of a formula all of whose dependency columns have kind
\* formula, mirror or lookup issues no display-value query for the formula
\* and sends no request to the coordinator; once it awaits its
\* dependencies, each of them is a nested resolve.
C18_AllComplexSkipsProbe ==
  \A f \in Frames :
    AllComplexKind(f)
      => /\ ~\E q \in DOMAIN issued :
              q.kind = "dv" /\ q.col = calls[f].col /\ q.items = calls[f].items
         /\ calls[f].creq = {}
         /\ calls[f].pc = "deps" => Len(calls[f].kids) = Len(DependenciesOf(f))

\* C19: a resolve of a formula with simple and complex dependencies sends
\* only the simple ones to the coordinator: no coordinator request and no
\* multi-column query names a column of kind formula, mirror or lookup.
C19_CoordinatorOnlySimple ==
  /\ \A f \in Frames : \A r \in calls[f].creq : ~ComplexKind(calls[f].board, r.col)
  /\ \A q \in DOMAIN issued :
       q.kind = "multi" => \A c \in q.cols : ~ComplexKind("b1", c)

\* frame f is a resolveColumnValueBatch of a mirror column whose target
\* column is complex by its id prefix or by its declared kind
MirrorOfComplex(f) ==
  LET column == LookupColumn(calls[f].board, calls[f].col)
  IN /\ calls[f].kind = "batch"
     /\ column.type = "mirror"
     /\ column.tcol # NOCOL
     /\ (isComplexColumnId(column.tcol) \/ ComplexKind(column.tboard, column.tcol))

\* C20: resolveColumnValueBatch on a mirror column whose target column is
\* complex, by its id prefix or by its declared kind, issues no batched
\* display-value query for the mirror.
C20_ComplexMirrorSkipsProbe ==
  \A f \in Frames :
    MirrorOfComplex(f)
      => ~\E q \in DOMAIN issued :
            q.kind = "dvbatch" /\ q.board = calls[f].board /\ q.col = calls[f].col

\* column c of board b is a mirror whose target column has declared kind
\* formula, mirror or lookup
MirrorOfComplexKind(b, c) ==
  LET column == LookupColumn(b, c)
  IN /\ column.type = "mirror"
     /\ column.tcol # NOCOL
     /\ ComplexKind(column.tboard, column.tcol)

\* C21: resolve issues no display-value query on a mirror whose target
\* column has declared kind formula, mirror or lookup: the only query on
\* the mirror is the deep mirror fetch.
C21_MirrorNeverProbed ==
  \A q \in DOMAIN issued :
    q.kind = "dv" => ~MirrorOfComplexKind(q.board, q.col)

\* a resolve of mirror_a, whose target f_k is a formula by kind only, has
\* returned the aggregate of its linked items after the deep mirror fetch
C21_Witness ==
  /\ root = <<"b1", MIRROR_A>>
  /\ MirrorOfComplexKind(root[1], root[2]) /\ ~isComplexColumnId(F_K)
  /\ \E t \in SingleTops :
       /\ t \in Returned /\ TopFrame(t).how = "new"
       /\ TopFrame(t).kids # <<>>
       /\ \E q \in DOMAIN issued : q.kind = "mirror" /\ q.col = MIRROR_A /\ t \in q.by

\* a step in which frame f caches its result (step 6 of
\* resolveColumnValueInternal)
CachesResult(f) ==
  /\ IsSingle(f) /\ cacheKind = "simple"
  /\ calls[f].pc \notin {"fin", "done"}
  /\ calls'[f].pc = "fin" /\ calls'[f].inner = "ok"
  /\ FrameKey(f) \in DOMAIN valueCache'
  /\ calls'[f].res = <<valueCache'[FrameKey(f)]>>

\* C22: the value cache is write-once per session: a result is cached only
\* for a key that has no cached value, and a cached value stays as it is.
C22_ValueCacheWriteOnce ==
  [][/\ \A k \in DOMAIN valueCache :
          k \in DOMAIN valueCache' /\ valueCache'[k] = valueCache[k]
     /\ \A f \in Frames : CachesResult(f) => FrameKey(f) \notin DOMAIN valueCache]_vars

\* the values of a formula and of its dependencies are cached and a later
\* resolve was answered from the cache
C22_Witness ==
  /\ Cardinality(DOMAIN valueCache) >= 3
  /\ \E t \in SingleTops : TopFrame(t).how = "cached" /\ t \in Returned

\* the texts the platform holds in the target column of mirror c for the
\* items linked to item i, in the order of the linked-items list
LinkedTexts(c, i) ==
  LET mirroredItems == RemoteMirroredItems(c, i)
  IN [k \in 1..Len(mirroredItems) |->
        RemoteColumnValue(LookupColumn("b1", c).tcol, mirroredItems[k][2]).text]

\* s is t with some of its entries left out
RECURSIVE IsSubsequence(_, _)
IsSubsequence(s, t) ==
  IF s = <<>> THEN TRUE
  ELSE IF t = <<>> THEN FALSE
  ELSE IF Head(s) = Head(t) THEN IsSubsequence(Tail(s), Tail(t))
  ELSE IsSubsequence(s, Tail(t))

\* the texts of the linked items that a joined text may list: the linked
\* texts in their order, without those whose resolution failed
OrderedJoins(c, i) ==
  {Strv(JoinComma(ts)) : ts \in {ts \in UNION {[1..n -> {LinkedTexts(c, i)[k] : k \in 1..Len(LinkedTexts(c, i))}] :
                                        n \in 1..Len(LinkedTexts(c, i))} :
                                   IsSubsequence(ts, LinkedTexts(c, i))}}

\* C23: the text a mirror returns through its linked items lists the
\* children's values in the order of the linked-items list, in every order
\* in which the children's resolutions complete: all of them when no query
\* failed, for resolve and for every item of resolve_batch.
C23_MirrorTextInListOrder ==
  root = <<"b1", MIRROR_T>> =>
    /\ \A t \in SingleTops :
         (t \in Returned /\ TopFrame(t).res[1].t = "str" /\ TopFrame(t).res[1] # Empty)
           => /\ TopFrame(t).res[1] \in OrderedJoins(MIRROR_T, TopItem)
              /\ failures = 0 =>
                   TopFrame(t).res[1] = Strv(JoinComma(LinkedTexts(MIRROR_T, TopItem)))
    /\ \A u \in BatchTops : \A k \in 1..Len(BatchItems) :
         (u \in Returned /\ TopFrame(u).res[k].t = "str" /\ TopFrame(u).res[k] # Empty)
           => /\ TopFrame(u).res[k] \in OrderedJoins(MIRROR_T, BatchItems[k])
              /\ failures = 0 =>
                   TopFrame(u).res[k] = Strv(JoinComma(LinkedTexts(MIRROR_T, BatchItems[k])))

\* a resolve and a resolve_batch of mirror_t have returned "B, A", the
\* texts of the linked items 2 and 1 in list order
C23_Witness ==
  /\ root = <<"b1", MIRROR_T>>
  /\ \E t \in SingleTops :
       t \in Returned /\ TopFrame(t).res = <<Strv(<<"B", ",", " ", "A">>)>>
  /\ \E u \in BatchTops :
       u \in Returned /\ TopFrame(u).res[1] = Strv(<<"B", ",", " ", "A">>)

\* the response of the formula-to-text action whose resolveValue is the
\* first call of a createSimpleCache session; the error of a failed remote
\* query is the transport's, its message names neither 'not found' nor '404'
ActionResponse == executeAction(TopFrame(1).outer, TopFrame(1).res, FALSE)

\* C24: the formula-to-text action answers a remote error from the
\* resolver with severityCode 4000, a missing board or a missing column
\* with severityCode 6000, and a successful resolve with the display
\* string in its output field.
C24_ActionSeverity ==
  (cacheKind = "simple" /\ 1 \in SingleTops /\ 1 \in Settled)
    => IF root \in MissingRoots THEN ActionResponse.severityCode = 6000
       ELSE IF TopFrame(1).outer = "err" THEN ActionResponse.severityCode = 4000
       ELSE /\ ActionResponse.status = 200
            /\ ActionResponse.formulaText = String(TopFrame(1).res[1])

\* v is raw under strict typing: a string is a number only when the whole
\* string is a plain decimal number, any other string is unchanged
StrictlyTyped(raw, v) ==
  IF raw.t = "str" /\ IsPureNumber(raw.s) THEN v = parseFloat(raw.s) ELSE v = raw

\* the frames that ran resolveColumnValueInternal to a result, every
\* query having succeeded
Resolved == {f \in Frames : /\ failures = 0
                            /\ IsSingle(f) /\ calls[f].how = "new"
                            /\ calls[f].pc \in {"fin", "done"}
                            /\ calls[f].inner = "ok"
                            /\ calls[f].board \in Boards
                            /\ calls[f].col \in BoardColumnIds}

\* the display string handleFormula evaluated for frame f
EvaluatedText(f) ==
  LET fr == calls[f]
      formula == LookupColumn(fr.board, fr.col).formula
      columnValues == fr.env \cup
        {<<fr.rec[k], kidValue(St, fr.kids[k], Zero)>> : k \in 1..Len(fr.rec)}
  IN Strv(formatResult(evaluate(formula, columnValues)))

\* C25: resolve converts a text to a number only when the whole string is
\* a plain decimal number and returns any other text unchanged: the
\* column's own display value, a dependency value delivered by the
\* coordinator, and the result of evaluating a formula.
C25_StrictTyping ==
  /\ \A f \in Resolved :
       (TypeOf(f) \notin {"formula", "mirror"}
          /\ ~isNullishDisplayValue(fetchDisplayValue(calls[f].col, calls[f].items[1])))
         => StrictlyTyped(fetchDisplayValue(calls[f].col, calls[f].items[1]),
                          calls[f].res[1])
  /\ \A f \in Frames : \A p \in calls[f].env :
       (IsSingle(f) /\ TypeOf(f) = "formula")
         => StrictlyTyped(coordinatorValue(calls[f], p[1]), p[2])
  /\ \A f \in Resolved :
       (TypeOf(f) = "formula" /\ LookupColumn(calls[f].board, calls[f].col).formula # <<>>)
         => StrictlyTyped(EvaluatedText(f), calls[f].res[1])

\* C26: a mirror whose deep-mirror display_value is a single number
\* resolves to that number, for every aggregation function of its
\* settings, count included: mirror_c, a count mirror with display_value
\* '5', resolves to 5 by resolve and by resolve_batch.
C26_SingleNumberDisplayValue ==
  root = <<"b1", MIRROR_C>> =>
    /\ \A t \in SingleTops :
         (failures = 0 /\ t \in Returned) => TopFrame(t).res = <<Numv(5)>>
    /\ \A u \in BatchTops :
         (failures = 0 /\ u \in Returned) => TopFrame(u).res[1] = Numv(5)

\* what a mirror column without display_value and without linked values
\* resolves to, by its settings.function
EmptyMirrorValue(column) ==
  IF column.fn \in {"sum", "avg", "count"} THEN Zero ELSE Empty

\* frame f resolved a mirror with an empty display_value whose linked items
\* gave no value: there are none, or the resolution of each failed or was ''
WithoutLinkedValues(f) ==
  /\ IsSingle(f) /\ calls[f].how = "new" /\ TypeOf(f) = "mirror"
  /\ calls[f].pc \in {"fin", "done"} /\ calls[f].inner = "ok"
  /\ isNullishDisplayValue(RemoteColumnValue(calls[f].col, calls[f].items[1]).display_value)
  /\ \/ failures = 0 /\ RemoteMirroredItems(calls[f].col, calls[f].items[1]) = <<>>
     \/ /\ calls[f].kids # <<>>
        /\ \A k \in 1..Len(calls[f].kids) :
             kidValue(St, calls[f].kids[k], Null) \in {Null, Empty}

\* C27: a mirror with an empty display_value and no resolvable linked
\* value resolves to 0 when its settings.function is sum, avg or count and
\* to '' when the function is none or absent, by resolve and by
\* resolve_batch.
C27_EmptyMirrorDefault ==
  /\ \A f \in Frames :
       WithoutLinkedValues(f)
         => calls[f].res = <<EmptyMirrorValue(LookupColumn(calls[f].board, calls[f].col))>>
  /\ \A u \in BatchTops :
       (root = <<"b1", MIRROR_E>> /\ failures = 0 /\ u \in Returned)
         => \A k \in 1..Len(BatchItems) :
              TopFrame(u).res[k] = EmptyMirrorValue(LookupColumn(root[1], root[2]))

\* C28: a resolve of a formula column whose formula text is the empty
\* string returns '', and so does resolve_batch for every item.
C28_EmptyFormulaIsEmpty ==
  (root = <<"b1", F_E>> /\ failures = 0)
    => /\ \A t \in SingleTops : t \in Returned => TopFrame(t).res = <<Empty>>
       /\ \A u \in BatchTops : u \in Returned =>
            \A k \in 1..Len(BatchItems) : TopFrame(u).res[k] = Empty

-----------------------------------------------------------------------------
(* Properties of the formula engine, by claim *)

\* evaluateFormula has returned
Evaluated == formulaResult # Null

\* C29: for all scalars a and b, evaluating IF(TRUE(), a, b) yields a and
\* evaluating IF(FALSE(), a, b) yields b.
C29_IfOfTrueAndFalse ==
  \A a \in Scalars : \A b \in Scalars :
    /\ (Evaluated /\ tokenizerFormula = IfFormula(TrueCall, a.text, b.text))
         => formulaResult = Strv(formatResult(a.value))
    /\ (Evaluated /\ tokenizerFormula = IfFormula(FalseCall, a.text, b.text))
         => formulaResult = Strv(formatResult(b.value))

\* the token kinds that end an operand
OperandTokens == {"NUMBER", "STRING", "BOOLEAN", "COLUMN_REF", "RPAREN"}

\* the tokens whose text starts with the '-' of the formula at position pos
TokensAt(pos) ==
  {k \in 1..Len(tokenizerTokens) : tokenizerTokens[k].position = pos}

\* C30: a '-' immediately followed by a digit is the sign of a number
\* literal only when it does not follow an operand (number, string,
\* boolean, column reference or closing parenthesis); after an operand the
\* tokenizer emits a '-' operator token.
C30_MinusAfterOperand ==
  TokensComplete =>
    \A pos \in 0..(Len(tokenizerFormula) - 2) :
      (charAt(tokenizerFormula, pos) = "-" /\ IsDigit(charAt(tokenizerFormula, pos + 1)))
        => \A k \in TokensAt(pos) :
             IF k > 1 /\ tokenizerTokens[k - 1].type \in OperandTokens
               THEN /\ tokenizerTokens[k].type = "OPERATOR"
                    /\ tokenizerTokens[k].value = Strv(<<"-">>)
               ELSE tokenizerTokens[k].type = "NUMBER"

\* the depth of parentheses after each prefix of a text (the modelled
\* string literals hold no parenthesis)
RECURSIVE ParenDepth(_)
ParenDepth(text) ==
  IF text = <<>> THEN 0
  ELSE ParenDepth(SubSeq(text, 1, Len(text) - 1))
         + (IF text[Len(text)] = "(" THEN 1 ELSE IF text[Len(text)] = ")" THEN 0 - 1 ELSE 0)

MissingClosing(text) == ParenDepth(text) > 0
ExtraClosing(text) == \E k \in 1..Len(text) : ParenDepth(SubSeq(text, 1, k)) < 0

\* Parser.parse has returned or thrown
ParseDone == parserAst # NotParsed
ParseThrew == ParseDone /\ parserAst.err # ""

\* C31: parse fails with an error for every formula whose parentheses are
\* unbalanced, whether a closing parenthesis is missing or an extra one is
\* present.
C31_UnbalancedParenthesesThrow ==
  (ParseDone /\ (MissingClosing(tokenizerFormula) \/ ExtraClosing(tokenizerFormula)))
    => ParseThrew

\* C32: division and modulus by zero return 0 for every dividend, for the
\* '/' and '%' operators and for the DIVIDE and MOD functions.
C32_DivisionByZeroIsZero ==
  \A a \in Scalars :
    (/\ Evaluated
     /\ tokenizerFormula \in
          {OperatorFormula(a.text, <<"/">>, <<"0">>),
           OperatorFormula(a.text, <<" ", "%", " ">>, <<"0">>),
           CallFormula(<<"D", "I", "V", "I", "D", "E">>, a.text, <<"0">>),
           CallFormula(<<"m", "o", "d">>, a.text, <<"0">>)})
      => /\ ~ParseThrew
         /\ evaluateNode(parserAst.node, EngineColumnValues) = Zero
         /\ formulaResult = Strv(<<"0">>)

C32_Witness ==
  /\ Evaluated
  /\ tokenizerFormula = OperatorFormula(<<"2">>, <<"/">>, <<"0">>)
  /\ parserAst.node.type = "binary_op"
  /\ formulaResult = Strv(<<"0">>)

-----------------------------------------------------------------------------
(* Progress.  The event loop runs every queued continuation before its     *)
(* next task, so the queue is empty again and again; a remote query that   *)
(* is in flight completes and a timer that is set fires.  The callers are  *)
(* not obliged to call.                                                    *)

AcyclicRoots == RootKeys \ CyclicRoots

LiveInit == Init /\ root \in AcyclicRoots

LiveSpec ==
  /\ LiveInit
  /\ [][Next]_vars
  /\ []<>Quiescent
  /\ WF_vars(ExecuteCoordinatorBatch)
  /\ WF_vars(CoordinatorRespond)
  /\ WF_vars(SchemaRespond)
  /\ WF_vars(QueryRespond)

\* a request handed to the coordinator has no answer yet
CoordinatorWaiting ==
  \E f \in Frames : calls[f].pc = "coord" /\ \E r \in calls[f].creq : r.st = "wait"

\* C33: on an acyclic column graph every resolve call eventually settles
\* (returns or rejects), provided every remote query eventually completes;
\* every request handed to the coordinator is eventually answered, and no
\* caller invokes flush().
C33_EveryResolveSettles ==
  /\ \A t \in 1..MaxTop : (Len(hist) >= t) ~> (t \in Settled)
  /\ CoordinatorWaiting ~> ~CoordinatorWaiting

C33_Witness ==
  /\ root \in AcyclicRoots
  /\ Len(hist) >= 1
  /\ 1 \in Settled
  /\ \E f \in Frames : calls[f].creq # {} /\ \A r \in calls[f].creq : r.st # "wait"

\* the multi-column queries of the coordinator issued so far
MultiIssued == {q \in DOMAIN issued : q.kind = "multi"}

\* C34: within a session the coordinator never issues two remote queries
\* that both include the same (itemId, columnId): a request for a pair that
\* is being fetched or has been fetched is answered from that fetch, under
\* every interleaving of requests, timer firings and query completions.
C34_PairFetchedOnce ==
  \A q \in MultiIssued :
    /\ issued[q] = 1
    /\ \A p \in MultiIssued \ {q} : p.items = q.items => p.cols \cap q.cols = {}

\* the key of a resolve or resolve_batch frame: the batch-level key has item 0
FramePathKey(fr) ==
  Key(fr.board, fr.col, IF fr.kind = "single" THEN fr.items[1] ELSE 0)

\* the resolve and resolve_batch calls that settle in this step
SettlingNow ==
  {f \in 1..Len(calls') :
     /\ calls'[f].kind \in {"single", "batch"}
     /\ calls'[f].outer # "run"
     /\ f <= Len(calls) => calls[f].outer = "run"}

\* K is neither in the in-flight map nor in the call's cycle-detection set
CleanedUp(fr) ==
  /\ FramePathKey(fr) \notin DOMAIN pendingValueRequests'
  /\ FramePathKey(fr) \notin visited'[fr.top]

\* C35: when a resolve call on key K settles, whether it returns or
\* rejects, K is no longer in the in-flight map and no longer in the
\* cycle-detection set; the same holds for the batch-level key when a
\* resolve_batch call settles.
C35_SettledKeyCleaned ==
  [][\A f \in SettlingNow : CleanedUp(calls'[f])]_vars

\* C35, amended: when a resolve call on key K that was not answered by the
\* cycle detection settles, whether it returns or rejects, K is no longer
\* in the in-flight map and no longer in the cycle-detection set; the same
\* holds for the batch-level key of a resolve_batch call.  A call answered
\* by the cycle detection settles while K belongs to the call it is nested
\* in.
C35_ResolutionKeyCleaned ==
  [][\A f \in SettlingNow : calls'[f].how # "cycle" => CleanedUp(calls'[f])]_vars

\* a resolution of K rejected, a resolve_batch returned, and their keys are
\* gone from the in-flight map and from visitedPaths
C35_Witness ==
  /\ \E f \in Frames :
       /\ calls[f].kind = "single" /\ calls[f].how = "new" /\ calls[f].outer = "err"
       /\ FramePathKey(calls[f]) \notin DOMAIN pendingValueRequests
       /\ FramePathKey(calls[f]) \notin visited[calls[f].top]
  /\ \E f \in Frames :
       /\ calls[f].kind = "batch" /\ calls[f].how = "new" /\ calls[f].outer = "ok"
       /\ FramePathKey(calls[f]) \notin visited[calls[f].top]

\* the coordinator queries that fail in this step
FailedNow ==
  {cq \in coordinatorQueries : cq \notin coordinatorQueries' /\ failures' = failures + 1}

\* the request <<columnId, frame>> goes from waiting to rejected in this step
RejectedNow(p) ==
  /\ \E r \in calls[p[2]].creq : r.col = p[1] /\ r.st = "wait"
  /\ \A r \in calls'[p[2]].creq : r.col = p[1] => r.st = "err"

\* what holds of a failing batch in every step: its requests go from waiting
\* to rejected, the failure itself caches nothing, the requests of other
\* batches are left as they were, and a settled request keeps its outcome
FailedBatchRejected ==
  /\ [][\A cq \in FailedNow :
          /\ \A p \in cq.resolvers : RejectedNow(p)
          /\ coordinatorCache' = coordinatorCache
          /\ \A f \in Frames : \A r \in calls[f].creq :
                <<r.col, f>> \notin cq.resolvers => r \in calls'[f].creq]_vars
  /\ [][\A f \in Frames : \A r \in calls[f].creq :
          r.st # "wait" => r \in calls'[f].creq]_vars

StartingNow == {f \in (Len(calls) + 1)..Len(calls') : calls'[f].kind = "single"}

\* the resolve calls on the key of fr that have rejected
RejectedOn(fr) ==
  {g \in Frames : /\ calls[g].kind = "single"
                   /\ FramePathKey(calls[g]) = FramePathKey(fr)
                   /\ calls[g].outer = "err"}

\* the results of the resolutions of the key of fr that have completed
ResolvedOn(fr) ==
  {calls[g].res : g \in {h \in Frames : /\ calls[h].kind = "single"
                                          /\ FramePathKey(calls[h]) = FramePathKey(fr)
                                          /\ calls[h].how = "new"
                                          /\ calls[h].inner = "ok"}}

BatchReturned ==
  {f \in Frames : calls[f].kind = "batch" /\ calls[f].outer = "ok"}

\* the item ids a resolve_batch call was asked for
Requested(f) == {calls[f].items[k] : k \in 1..Len(calls[f].items)}

\* C38: whenever resolve_batch returns, the key set of the returned map is
\* exactly the set of requested item ids: every requested item has an
\* entry, also when the remote response has no value for it or a nested
\* resolution failed, and no other item appears.
C38_BatchKeysAreRequested ==
  \A f \in BatchReturned :
    /\ calls[f].keys = Requested(f)
    /\ \A k \in 1..Len(calls[f].items) : calls[f].res[k] # Null

\* a resolve_batch whose items all went to the recursion returned an entry
\* per item although a nested resolve_batch threw
C38_Witness ==
  \E f \in BatchReturned : \E k \in 1..Len(calls[f].kids) :
    /\ calls[calls[f].kids[k]].kind = "batch"
    /\ calls[calls[f].kids[k]].outer = "err"
    /\ calls[f].rec = calls[f].items
    /\ calls[f].keys = {1, 2}

-----------------------------------------------------------------------------
(* resolveColumnValueBatch on a leaf column, for lists of 0 to MaxItems    *)
(* distinct item ids: one call in a session of either kind, with the loop  *)
(* of fetchDisplayValueBatch over the chunks of the list.                  *)

\* the list of n distinct item ids
ItemIds(n) == [k \in 1..n |-> k]

ChunkInit == Init /\ root = <<"b1", NUM>>

\* resolveColumnValueBatch({ boardId, columnId, itemIds, ... }) on n items
ResolveBatchOf ==
  \E n \in 0..MaxItems :
    /\ hist = <<>>
    /\ LET t == TopCall("batch")
           S2 == resolveColumnValueBatchSync(t.S, cacheKind, 1, 0,
                                             root[1], root[2], ItemIds(n))
       IN Commit([S2 EXCEPT !.hist = Append(@, t.h)])

ChunkNext ==
  \/ ResolveBatchOf
  \/ BatchGotColumn
  \/ BatchGotDisplayValues
  \/ SchemaRespond
  \/ QueryRespond

ChunkSpec == ChunkInit /\ [][ChunkNext]_vars

\* the batched display-value queries issued on behalf of top-level call t
DisplayValueQueries(t) == {q \in DOMAIN issued : q.kind = "dvbatch" /\ t \in q.by}

\* the ids a query carries
Carried(q) == {q.items[k] : k \in 1..Len(q.items)}

\* ceil(n / d)
CeilDiv(n, d) == (n + d - 1) \div d

\* the top-level resolve_batch calls, and those that have returned
TopBatches == {f \in Frames : calls[f].kind = "batch" /\ calls[f].parent = 0}
TopBatchesReturned == {f \in TopBatches : calls[f].outer = "ok"}

\* every query of the fetch of frame f was issued once, carries at most 100
\* of the requested ids, and no id is carried by two queries
Chunked(f) ==
  LET Q == DisplayValueQueries(calls[f].top)
  IN \A q \in Q :
       /\ issued[q] = 1
       /\ Len(q.items) <= chunkSize
       /\ Carried(q) \subseteq Requested(f)
       /\ \A p \in Q \ {q} : Carried(p) \cap Carried(q) = {}

\* the fetch of frame f, once it has returned: ceil(n/100) queries that
\* carry every requested id
FetchedInChunks(f) ==
  LET Q == DisplayValueQueries(calls[f].top)
  IN Q # {} => /\ Cardinality(Q) = CeilDiv(Len(calls[f].items), chunkSize)
               /\ UNION {Carried(q) : q \in Q} = Requested(f)

\* C39: a batched display-value fetch for n item ids issues exactly
\* ceil(n/100) remote queries, each carrying at most 100 ids, with every
\* requested id in exactly one query; so a resolve_batch on a leaf column
\* with at most 100 items issues exactly one batched display-value query.
C39_ChunksOfHundred ==
  /\ \A f \in TopBatches : Chunked(f)
  /\ \A f \in TopBatchesReturned :
       /\ FetchedInChunks(f)
       /\ Len(calls[f].items) <= chunkSize
            => Cardinality(DisplayValueQueries(calls[f].top)) = 1

\* C39, amended: a batched display-value fetch for n item ids issues
\* exactly ceil(n/100) remote queries, each carrying at most 100 ids, with
\* every requested id in exactly one query; so a resolve_batch on a leaf
\* column with 1 to 100 items that found the column issues exactly one
\* batched display-value query.  With no item, or when the column is not
\* found because the schema fetch failed, it returns without a query.
C39_ChunksOfHundredWhenFetched ==
  /\ \A f \in TopBatches : Chunked(f)
  /\ \A f \in TopBatchesReturned :
       /\ FetchedInChunks(f)
       /\ Cardinality(DisplayValueQueries(calls[f].top)) =
            IF calls[f].items # <<>> /\ calls[f].board \in schemaCache
              THEN CeilDiv(Len(calls[f].items), chunkSize)
              ELSE 0

\* a resolve_batch on 201 items returned after three queries, the last
\* one carrying one id
C39_Witness ==
  \E f \in TopBatchesReturned :
    /\ Len(calls[f].items) = 2 * chunkSize + 1
    /\ Cardinality(DisplayValueQueries(calls[f].top)) = 3
    /\ \E q \in DisplayValueQueries(calls[f].top) : Len(q.items) = 1

====
